---- MODULE Spec2Model ----
(***************************************************************************)
(* Google Chat Viewer: the anonymization engine of app.py.                 *)
(*                                                                         *)
(* Text is a sequence of one-character strings.  The regular expressions   *)
(* of the source are values of a small pattern language (literal, bounded  *)
(* character class, alternation, \b, look-behind, look-ahead) and re.sub   *)
(* is the leftmost, non-overlapping scan of Python's re module, always     *)
(* with re.IGNORECASE as in the source.                                    *)
(***************************************************************************)
EXTENDS Integers, Sequences, FiniteSets, TLC

----------------------------------------------------------------------------
(* Characters                                                              *)

LowerOf ==
    "A" :> "a" @@ "B" :> "b" @@ "C" :> "c" @@ "D" :> "d" @@ "E" :> "e" @@
    "F" :> "f" @@ "G" :> "g" @@ "H" :> "h" @@ "I" :> "i" @@ "J" :> "j" @@
    "K" :> "k" @@ "L" :> "l" @@ "M" :> "m" @@ "N" :> "n" @@ "O" :> "o" @@
    "P" :> "p" @@ "Q" :> "q" @@ "R" :> "r" @@ "S" :> "s" @@ "T" :> "t" @@
    "U" :> "u" @@ "V" :> "v" @@ "W" :> "w" @@ "X" :> "x" @@ "Y" :> "y" @@
    "Z" :> "z"

UpperLetters == DOMAIN LowerOf

LowerLetters == {LowerOf[c] : c \in UpperLetters}

Letters == UpperLetters \cup LowerLetters

Digits == {"0", "1", "2", "3", "4", "5", "6", "7", "8", "9"}

\* \w of the re module (ASCII part)
WordChars == Letters \cup Digits \cup {"_"}

\* \s of the re module (ASCII part); also what str.split() and str.strip() cut at
Whitespace == {" ", "\t", "\n", "\r", "\f"}

\* str.lower() on one character; re.IGNORECASE compares characters through it
ToLower(c) == IF c \in UpperLetters THEN LowerOf[c] ELSE c

\* str.lower()
Lower(s) == [i \in 1..Len(s) |-> ToLower(s[i])]

Max(S) == CHOOSE x \in S : \A y \in S : y <= x

Min(S) == CHOOSE x \in S : \A y \in S : x <= y

----------------------------------------------------------------------------
(* The pattern language                                                    *)

\* a character class: the characters of c, or (neg) every character not in c
In(c) == [neg |-> FALSE, c |-> c]

NotIn(c) == [neg |-> TRUE, c |-> c]

InClass(ch, cls) == IF cls.neg THEN ch \notin cls.c ELSE ch \in cls.c

\* re.escape(s): the literal s
Lit(s) == [t |-> "lit", s |-> s]

\* cls{lo,hi}, greedy
Rep(cls, lo, hi) == [t |-> "rep", cls |-> cls, lo |-> lo, hi |-> hi]

\* cls* and cls+ (hi = -1: no upper limit)
Star(cls) == Rep(cls, 0, -1)

Plus(cls) == Rep(cls, 1, -1)

\* (?:a1|a2|...), the alternatives in the order written
Alt(alts) == [t |-> "alt", alts |-> alts]

\* (?:p)?
Opt(p) == Alt(<<p, <<>>>>)

\* \b
WordBoundary == [t |-> "wb"]

\* (?<=[c])
LookBehind(c) == [t |-> "lb", c |-> c]

\* (?=[c])
LookAhead(c) == [t |-> "la", c |-> c]

\* the literal s is at position i of text, case-insensitively
LitAt(s, text, i) ==
    /\ i + Len(s) - 1 <= Len(text)
    /\ \A j \in 1..Len(s) : ToLower(text[i + j - 1]) = ToLower(s[j])

\* the length of the longest run of characters of cls that starts at i, at most hi
\* (a negative hi: no limit)
RunLen(cls, text, i, hi) ==
    LET rest == Len(text) - i + 1
        cap  == IF hi < 0 \/ rest < hi THEN rest ELSE hi
        stop == {m \in 1..cap : ~InClass(text[i + m - 1], cls)}
    IN  IF stop = {} THEN cap ELSE Min(stop) - 1

\* \b at position i: exactly one of text[i-1], text[i] is a word character
AtWordBoundary(text, i) ==
    LET before == i > 1 /\ text[i - 1] \in WordChars
        after  == i <= Len(text) /\ text[i] \in WordChars
    IN  before # after

\* the positions at which a match of re[k..] that starts at i can end
\* (the index of the first character after the match)
RECURSIVE Ends(_, _, _, _)
Ends(re, k, text, i) ==
    IF k > Len(re) THEN {i}
    ELSE LET it == re[k] IN
         CASE it.t = "lit" ->
                IF LitAt(it.s, text, i) THEN Ends(re, k + 1, text, i + Len(it.s)) ELSE {}
           [] it.t = "rep" ->
                LET n == RunLen(it.cls, text, i, it.hi)
                IN  UNION {Ends(re, k + 1, text, i + m) : m \in it.lo..n}
           [] it.t = "alt" ->
                UNION {Ends(it.alts[a] \o SubSeq(re, k + 1, Len(re)), 1, text, i) :
                       a \in DOMAIN it.alts}
           [] it.t = "wb" ->
                IF AtWordBoundary(text, i) THEN Ends(re, k + 1, text, i) ELSE {}
           [] it.t = "lb" ->
                IF i > 1 /\ text[i - 1] \in it.c THEN Ends(re, k + 1, text, i) ELSE {}
           [] it.t = "la" ->
                IF i <= Len(text) /\ text[i] \in it.c THEN Ends(re, k + 1, text, i) ELSE {}

\* the positions of text at which a match of re can start at all: when re begins
\* with a literal, the positions that hold the first character of the literal
\* (a match starts nowhere else), and every position otherwise
Candidates(re, text) ==
    LET first == re[1] IN
    IF first.t = "lit" /\ first.s # <<>>
    THEN LET c == ToLower(first.s[1])
         IN  {i \in 1..Len(text) : ToLower(text[i]) = c}
    ELSE 1..Len(text)

\* re.search(pattern, text, flags=re.IGNORECASE) is not None
Search(re, text) == \E i \in Candidates(re, text) : Ends(re, 1, text, i) # {}

\* the positions at which a non-empty match starts
MatchStarts(re, text) ==
    {j \in Candidates(re, text) : \E e \in Ends(re, 1, text, j) : e > j}

\* re.sub(pattern, repl, text, flags=re.IGNORECASE), from position i on: the
\* leftmost match, then the scan goes on behind it.  Every pattern of the source
\* is greedy up to its last item, so the match the re module takes at a position
\* is the longest one there; no pattern of the source matches the empty string.
\* starts holds MatchStarts(re, text): whether a match starts at a position
\* does not depend on the matches taken before it.
RECURSIVE SubFrom(_, _, _, _, _)
SubFrom(re, repl, text, i, starts) ==
    LET rest == {j \in starts : j >= i} IN
    IF rest = {} THEN SubSeq(text, i, Len(text))
    ELSE LET j == Min(rest)
             e == Max(Ends(re, 1, text, j))
         IN  SubSeq(text, i, j - 1) \o repl \o SubFrom(re, repl, text, e, starts)

\* re.sub(pattern, repl, text, count=1): the leftmost match only
SubFirst(re, repl, text) ==
    LET starts == MatchStarts(re, text) IN
    IF starts = {} THEN text
    ELSE LET j == Min(starts)
             e == Max(Ends(re, 1, text, j))
         IN  SubSeq(text, 1, j - 1) \o repl \o SubSeq(text, e, Len(text))

\* re.sub(pattern, repl, text, flags=re.IGNORECASE)
Sub(re, repl, text) == SubFrom(re, repl, text, 1, MatchStarts(re, text))

\* needle in text (Python's substring test)
Contains(text, needle) ==
    \E i \in 1..(Len(text) - Len(needle) + 1) :
        \A j \in 1..Len(needle) : text[i + j - 1] = needle[j]

----------------------------------------------------------------------------
(* anonymize_all_links                                                     *)

\* [^\s]
NonSpace == NotIn(Whitespace)

\* [a-zA-Z0-9-_]
DocIdChars == In(Letters \cup Digits \cup {"-", "_"})

\* [a-zA-Z0-9.-]
HostChars == In(Letters \cup Digits \cup {".", "-"})

\* \d{1,3}
Octet == Rep(In(Digits), 1, 3)

\* the service-specific entries of link_patterns, in the insertion order of the
\* dict: "Google Services" to "Generic patterns" without the two last entries
specific_patterns ==
    <<
       [name |-> "google_docs",
        re |-> <<Lit(<<"h", "t", "t", "p", "s", ":", "/", "/", "d", "o", "c", "s", ".", "g",
                       "o", "o", "g", "l", "e", ".", "c", "o", "m", "/", "d", "o", "c", "u",
                       "m", "e", "n", "t", "/", "d", "/">>),
               Plus(DocIdChars),
               Star(NonSpace)>>,
        tag |-> <<"[", "D", "O", "C", "S", "_", "L", "I", "N", "K", "]">>],
       [name |-> "google_sheets",
        re |-> <<Lit(<<"h", "t", "t", "p", "s", ":", "/", "/", "d", "o", "c", "s", ".", "g",
                       "o", "o", "g", "l", "e", ".", "c", "o", "m", "/", "s", "p", "r", "e",
                       "a", "d", "s", "h", "e", "e", "t", "s", "/", "d", "/">>),
               Plus(DocIdChars),
               Star(NonSpace)>>,
        tag |-> <<"[", "S", "H", "E", "E", "T", "S", "_", "L", "I", "N", "K", "]">>],
       [name |-> "google_slides",
        re |-> <<Lit(<<"h", "t", "t", "p", "s", ":", "/", "/", "d", "o", "c", "s", ".", "g",
                       "o", "o", "g", "l", "e", ".", "c", "o", "m", "/", "p", "r", "e", "s",
                       "e", "n", "t", "a", "t", "i", "o", "n", "/", "d", "/">>),
               Plus(DocIdChars),
               Star(NonSpace)>>,
        tag |-> <<"[", "S", "L", "I", "D", "E", "S", "_", "L", "I", "N", "K", "]">>],
       [name |-> "google_forms",
        re |-> <<Lit(<<"h", "t", "t", "p", "s", ":", "/", "/", "d", "o", "c", "s", ".", "g",
                       "o", "o", "g", "l", "e", ".", "c", "o", "m", "/", "f", "o", "r", "m",
                       "s", "/", "d", "/">>),
               Plus(DocIdChars),
               Star(NonSpace)>>,
        tag |-> <<"[", "F", "O", "R", "M", "S", "_", "L", "I", "N", "K", "]">>],
       [name |-> "google_drive",
        re |-> <<Lit(<<"h", "t", "t", "p", "s", ":", "/", "/", "d", "r", "i", "v", "e", ".",
                       "g", "o", "o", "g", "l", "e", ".", "c", "o", "m", "/">>),
               Star(NonSpace)>>,
        tag |-> <<"[", "D", "R", "I", "V", "E", "_", "L", "I", "N", "K", "]">>],
       [name |-> "google_meet",
        re |-> <<Lit(<<"h", "t", "t", "p", "s", ":", "/", "/", "m", "e", "e", "t", ".", "g",
                       "o", "o", "g", "l", "e", ".", "c", "o", "m", "/">>),
               Star(NonSpace)>>,
        tag |-> <<"[", "M", "E", "E", "T", "_", "L", "I", "N", "K", "]">>],
       [name |-> "google_calendar",
        re |-> <<Lit(<<"h", "t", "t", "p", "s", ":", "/", "/", "c", "a", "l", "e", "n", "d",
                       "a", "r", ".", "g", "o", "o", "g", "l", "e", ".", "c", "o", "m", "/">>),
               Star(NonSpace)>>,
        tag |-> <<"[", "C", "A", "L", "E", "N", "D", "A", "R", "_", "L", "I", "N", "K", "]">>],
       [name |-> "google_classroom",
        re |-> <<Lit(<<"h", "t", "t", "p", "s", ":", "/", "/", "c", "l", "a", "s", "s", "r",
                       "o", "o", "m", ".", "g", "o", "o", "g", "l", "e", ".", "c", "o", "m",
                       "/">>),
               Star(NonSpace)>>,
        tag |-> <<"[", "C", "L", "A", "S", "S", "R", "O", "O", "M", "_", "L", "I", "N", "K",
                  "]">>],
       [name |-> "gmail",
        re |-> <<Lit(<<"h", "t", "t", "p", "s", ":", "/", "/", "m", "a", "i", "l", ".", "g",
                       "o", "o", "g", "l", "e", ".", "c", "o", "m", "/">>),
               Star(NonSpace)>>,
        tag |-> <<"[", "G", "M", "A", "I", "L", "_", "L", "I", "N", "K", "]">>],
       [name |-> "google_other",
        re |-> <<Lit(<<"h", "t", "t", "p", "s", ":", "/", "/">>),
               Star(HostChars),
               Lit(<<".", "g", "o", "o", "g", "l", "e", ".", "c", "o", "m", "/">>),
               Star(NonSpace)>>,
        tag |-> <<"[", "G", "O", "O", "G", "L", "E", "_", "L", "I", "N", "K", "]">>],
       [name |-> "github",
        re |-> <<Lit(<<"h", "t", "t", "p", "s", ":", "/", "/">>),
               Opt(<<Lit(<<"w", "w", "w", ".">>)>>),
               Lit(<<"g", "i", "t", "h", "u", "b", ".", "c", "o", "m", "/">>),
               Star(NonSpace)>>,
        tag |-> <<"[", "G", "I", "T", "H", "U", "B", "_", "L", "I", "N", "K", "]">>],
       [name |-> "gitlab",
        re |-> <<Lit(<<"h", "t", "t", "p", "s", ":", "/", "/">>),
               Opt(<<Lit(<<"w", "w", "w", ".">>)>>),
               Lit(<<"g", "i", "t", "l", "a", "b", ".", "c", "o", "m", "/">>),
               Star(NonSpace)>>,
        tag |-> <<"[", "G", "I", "T", "L", "A", "B", "_", "L", "I", "N", "K", "]">>],
       [name |-> "bitbucket",
        re |-> <<Lit(<<"h", "t", "t", "p", "s", ":", "/", "/">>),
               Opt(<<Lit(<<"w", "w", "w", ".">>)>>),
               Lit(<<"b", "i", "t", "b", "u", "c", "k", "e", "t", ".", "o", "r", "g", "/">>),
               Star(NonSpace)>>,
        tag |-> <<"[", "B", "I", "T", "B", "U", "C", "K", "E", "T", "_", "L", "I", "N", "K",
                  "]">>],
       [name |-> "stackoverflow",
        re |-> <<Lit(<<"h", "t", "t", "p", "s", ":", "/", "/">>),
               Opt(<<Lit(<<"w", "w", "w", ".">>)>>),
               Lit(<<"s", "t", "a", "c", "k", "o", "v", "e", "r", "f", "l", "o", "w", ".", "c",
                     "o", "m", "/">>),
               Star(NonSpace)>>,
        tag |-> <<"[", "S", "T", "A", "C", "K", "O", "V", "E", "R", "F", "L", "O", "W", "_",
                  "L", "I", "N", "K", "]">>],
       [name |-> "npm",
        re |-> <<Lit(<<"h", "t", "t", "p", "s", ":", "/", "/">>),
               Opt(<<Lit(<<"w", "w", "w", ".">>)>>),
               Lit(<<"n", "p", "m", "j", "s", ".", "c", "o", "m", "/">>),
               Star(NonSpace)>>,
        tag |-> <<"[", "N", "P", "M", "_", "L", "I", "N", "K", "]">>],
       [name |-> "pypi",
        re |-> <<Lit(<<"h", "t", "t", "p", "s", ":", "/", "/">>),
               Opt(<<Lit(<<"w", "w", "w", ".">>)>>),
               Lit(<<"p", "y", "p", "i", ".", "o", "r", "g", "/">>),
               Star(NonSpace)>>,
        tag |-> <<"[", "P", "Y", "P", "I", "_", "L", "I", "N", "K", "]">>],
       [name |-> "slack",
        re |-> <<Lit(<<"h", "t", "t", "p", "s", ":", "/", "/">>),
               Plus(HostChars),
               Lit(<<".", "s", "l", "a", "c", "k", ".", "c", "o", "m", "/">>),
               Star(NonSpace)>>,
        tag |-> <<"[", "S", "L", "A", "C", "K", "_", "L", "I", "N", "K", "]">>],
       [name |-> "discord",
        re |-> <<Lit(<<"h", "t", "t", "p", "s", ":", "/", "/">>),
               Opt(<<Lit(<<"w", "w", "w", ".">>)>>),
               Lit(<<"d", "i", "s", "c", "o", "r", "d", ".">>),
               Alt(<<<<Lit(<<"g", "g">>)>>, <<Lit(<<"c", "o", "m">>)>>>>),
               Lit(<<"/">>),
               Star(NonSpace)>>,
        tag |-> <<"[", "D", "I", "S", "C", "O", "R", "D", "_", "L", "I", "N", "K", "]">>],
       [name |-> "zoom",
        re |-> <<Lit(<<"h", "t", "t", "p", "s", ":", "/", "/">>),
               Star(HostChars),
               Lit(<<".", "z", "o", "o", "m", ".", "u", "s", "/">>),
               Star(NonSpace)>>,
        tag |-> <<"[", "Z", "O", "O", "M", "_", "L", "I", "N", "K", "]">>],
       [name |-> "teams",
        re |-> <<Lit(<<"h", "t", "t", "p", "s", ":", "/", "/", "t", "e", "a", "m", "s", ".",
                       "m", "i", "c", "r", "o", "s", "o", "f", "t", ".", "c", "o", "m", "/">>),
               Star(NonSpace)>>,
        tag |-> <<"[", "T", "E", "A", "M", "S", "_", "L", "I", "N", "K", "]">>],
       [name |-> "webex",
        re |-> <<Lit(<<"h", "t", "t", "p", "s", ":", "/", "/">>),
               Star(HostChars),
               Lit(<<".", "w", "e", "b", "e", "x", ".", "c", "o", "m", "/">>),
               Star(NonSpace)>>,
        tag |-> <<"[", "W", "E", "B", "E", "X", "_", "L", "I", "N", "K", "]">>],
       [name |-> "dropbox",
        re |-> <<Lit(<<"h", "t", "t", "p", "s", ":", "/", "/">>),
               Opt(<<Lit(<<"w", "w", "w", ".">>)>>),
               Lit(<<"d", "r", "o", "p", "b", "o", "x", ".", "c", "o", "m", "/">>),
               Star(NonSpace)>>,
        tag |-> <<"[", "D", "R", "O", "P", "B", "O", "X", "_", "L", "I", "N", "K", "]">>],
       [name |-> "onedrive",
        re |-> <<Lit(<<"h", "t", "t", "p", "s", ":", "/", "/">>),
               Star(HostChars),
               Lit(<<".", "s", "h", "a", "r", "e", "p", "o", "i", "n", "t", ".", "c", "o", "m",
                     "/">>),
               Star(NonSpace)>>,
        tag |-> <<"[", "O", "N", "E", "D", "R", "I", "V", "E", "_", "L", "I", "N", "K", "]">>],
       [name |-> "box",
        re |-> <<Lit(<<"h", "t", "t", "p", "s", ":", "/", "/">>),
               Star(HostChars),
               Lit(<<".", "b", "o", "x", ".", "c", "o", "m", "/">>),
               Star(NonSpace)>>,
        tag |-> <<"[", "B", "O", "X", "_", "L", "I", "N", "K", "]">>],
       [name |-> "icloud",
        re |-> <<Lit(<<"h", "t", "t", "p", "s", ":", "/", "/">>),
               Opt(<<Lit(<<"w", "w", "w", ".">>)>>),
               Lit(<<"i", "c", "l", "o", "u", "d", ".", "c", "o", "m", "/">>),
               Star(NonSpace)>>,
        tag |-> <<"[", "I", "C", "L", "O", "U", "D", "_", "L", "I", "N", "K", "]">>],
       [name |-> "linkedin",
        re |-> <<Lit(<<"h", "t", "t", "p", "s", ":", "/", "/">>),
               Opt(<<Lit(<<"w", "w", "w", ".">>)>>),
               Lit(<<"l", "i", "n", "k", "e", "d", "i", "n", ".", "c", "o", "m", "/">>),
               Star(NonSpace)>>,
        tag |-> <<"[", "L", "I", "N", "K", "E", "D", "I", "N", "_", "L", "I", "N", "K", "]">>],
       [name |-> "twitter",
        re |-> <<Lit(<<"h", "t", "t", "p", "s", ":", "/", "/">>),
               Opt(<<Lit(<<"w", "w", "w", ".">>)>>),
               Alt(<<<<Lit(<<"t", "w", "i", "t", "t", "e", "r">>)>>, <<Lit(<<"x">>)>>>>),
               Lit(<<".", "c", "o", "m", "/">>),
               Star(NonSpace)>>,
        tag |-> <<"[", "T", "W", "I", "T", "T", "E", "R", "_", "L", "I", "N", "K", "]">>],
       [name |-> "facebook",
        re |-> <<Lit(<<"h", "t", "t", "p", "s", ":", "/", "/">>),
               Opt(<<Lit(<<"w", "w", "w", ".">>)>>),
               Lit(<<"f", "a", "c", "e", "b", "o", "o", "k", ".", "c", "o", "m", "/">>),
               Star(NonSpace)>>,
        tag |-> <<"[", "F", "A", "C", "E", "B", "O", "O", "K", "_", "L", "I", "N", "K", "]">>],
       [name |-> "instagram",
        re |-> <<Lit(<<"h", "t", "t", "p", "s", ":", "/", "/">>),
               Opt(<<Lit(<<"w", "w", "w", ".">>)>>),
               Lit(<<"i", "n", "s", "t", "a", "g", "r", "a", "m", ".", "c", "o", "m", "/">>),
               Star(NonSpace)>>,
        tag |-> <<"[", "I", "N", "S", "T", "A", "G", "R", "A", "M", "_", "L", "I", "N", "K",
                  "]">>],
       [name |-> "youtube",
        re |-> <<Lit(<<"h", "t", "t", "p", "s", ":", "/", "/">>),
               Opt(<<Lit(<<"w", "w", "w", ".">>)>>),
               Alt(<<<<Lit(<<"y", "o", "u", "t", "u", "b", "e", ".", "c", "o", "m">>)>>,
                             <<Lit(<<"y", "o", "u", "t", "u", ".", "b", "e">>)>>>>),
               Lit(<<"/">>),
               Star(NonSpace)>>,
        tag |-> <<"[", "Y", "O", "U", "T", "U", "B", "E", "_", "L", "I", "N", "K", "]">>],
       [name |-> "notion",
        re |-> <<Lit(<<"h", "t", "t", "p", "s", ":", "/", "/">>),
               Opt(<<Lit(<<"w", "w", "w", ".">>)>>),
               Lit(<<"n", "o", "t", "i", "o", "n", ".", "s", "o", "/">>),
               Star(NonSpace)>>,
        tag |-> <<"[", "N", "O", "T", "I", "O", "N", "_", "L", "I", "N", "K", "]">>],
       [name |-> "confluence",
        re |-> <<Lit(<<"h", "t", "t", "p", "s", ":", "/", "/">>),
               Star(HostChars),
               Lit(<<".", "a", "t", "l", "a", "s", "s", "i", "a", "n", ".", "n", "e", "t",
                     "/">>),
               Star(NonSpace)>>,
        tag |-> <<"[", "C", "O", "N", "F", "L", "U", "E", "N", "C", "E", "_", "L", "I", "N",
                  "K", "]">>],
       [name |-> "jira",
        re |-> <<Lit(<<"h", "t", "t", "p", "s", ":", "/", "/">>),
               Star(HostChars),
               Lit(<<".", "a", "t", "l", "a", "s", "s", "i", "a", "n", ".", "n", "e", "t",
                     "/">>),
               Star(NonSpace)>>,
        tag |-> <<"[", "J", "I", "R", "A", "_", "L", "I", "N", "K", "]">>],
       [name |-> "ftp",
        re |-> <<Lit(<<"f", "t", "p", ":", "/", "/">>),
               Star(NonSpace)>>,
        tag |-> <<"[", "F", "T", "P", "_", "L", "I", "N", "K", "]">>],
       [name |-> "file_path",
        re |-> <<Lit(<<"f", "i", "l", "e", ":", "/", "/">>),
               Star(NonSpace)>>,
        tag |-> <<"[", "F", "I", "L", "E", "_", "P", "A", "T", "H", "]">>],
       [name |-> "network_share",
        re |-> <<Lit(<<"\\", "\\">>),
               Plus(HostChars),
               Lit(<<"\\">>),
               Star(NonSpace)>>,
        tag |-> <<"[", "N", "E", "T", "W", "O", "R", "K", "_", "P", "A", "T", "H", "]">>],
       [name |-> "ip_address",
        re |-> <<Lit(<<"h", "t", "t", "p">>),
               Opt(<<Lit(<<"s">>)>>),
               Lit(<<":", "/", "/">>),
               Octet,
               Lit(<<".">>),
               Octet,
               Lit(<<".">>),
               Octet,
               Lit(<<".">>),
               Octet,
               Opt(<<Lit(<<":">>), Plus(In(Digits))>>),
               Star(NonSpace)>>,
        tag |-> <<"[", "I", "P", "_", "A", "D", "D", "R", "E", "S", "S", "]">>]
    >>

\* the two last entries of link_patterns: the generic https:// and http://
catch_all_patterns ==
    <<
       [name |-> "generic_https",
        re |-> <<Lit(<<"h", "t", "t", "p", "s", ":", "/", "/">>),
               Plus(HostChars),
               Lit(<<".">>),
               Rep(In(Letters), 2, -1),
               Star(NonSpace)>>,
        tag |-> <<"[", "H", "T", "T", "P", "S", "_", "L", "I", "N", "K", "]">>],
       [name |-> "generic_http",
        re |-> <<Lit(<<"h", "t", "t", "p", ":", "/", "/">>),
               Plus(HostChars),
               Lit(<<".">>),
               Rep(In(Letters), 2, -1),
               Star(NonSpace)>>,
        tag |-> <<"[", "H", "T", "T", "P", "_", "L", "I", "N", "K", "]">>]
    >>

\* a table that tries the catch-alls before the service patterns
link_patterns_catch_all_first == catch_all_patterns \o specific_patterns

\* the pattern table, in the insertion order of the dict
link_patterns == specific_patterns \o catch_all_patterns

\* the table of the "full" level, in the insertion order of the dict
generic_replacements ==
    <<
       \* https?://[^\s]+
       [name |-> "web_url",
        re |-> <<Lit(<<"h", "t", "t", "p">>), Opt(<<Lit(<<"s">>)>>), Lit(<<":", "/", "/">>),
               Plus(NonSpace)>>,
        tag |-> <<"[", "L", "I", "N", "K", "]">>],
       \* \b[A-Za-z0-9._%+-]+@[A-Za-z0-9.-]+\.[A-Z|a-z]{2,}\b
       [name |-> "email",
        re |-> <<WordBoundary,
               Plus(In(Letters \cup Digits \cup {".", "_", "%", "+", "-"})),
               Lit(<<"@">>),
               Plus(HostChars),
               Lit(<<".">>),
               Rep(In(Letters \cup {"|"}), 2, -1),
               WordBoundary>>,
        tag |-> <<"[", "E", "M", "A", "I", "L", "]">>],
       \* (?:file://|[A-Z]:\\|/)[^\s]*
       [name |-> "file_path",
        re |-> <<Alt(<<
                   <<Lit(<<"f", "i", "l", "e", ":", "/", "/">>)>>,
                   <<Rep(In(Letters), 1, 1), Lit(<<":", "\\">>)>>,
                   <<Lit(<<"/">>)>>
                 >>),
               Star(NonSpace)>>,
        tag |-> <<"[", "P", "A", "T", "H", "]">>]
    >>

\* for name, (pattern, replacement) in table.items(): text = re.sub(...), from entry k on;
\* guarded says whether the substitution is under "if re.search(pattern, text)"
RECURSIVE ApplyPatterns(_, _, _, _)
ApplyPatterns(table, k, guarded, text) ==
    IF k > Len(table) THEN text
    ELSE LET p == table[k]
             t == IF guarded /\ ~Search(p.re, text) THEN text ELSE Sub(p.re, p.tag, text)
         IN  \* (the test makes TLC compute t before it descends)
             IF Len(t) >= 0 THEN ApplyPatterns(table, k + 1, guarded, t) ELSE t

\* a classifier whose "full" level goes on with the table of the domain level
anonymize_all_links_both_tables(text, anonymization_level) ==
    IF text = <<>> THEN text
    ELSE IF anonymization_level = "full"
         THEN ApplyPatterns(link_patterns, 1, TRUE,
                            ApplyPatterns(generic_replacements, 1, FALSE, text))
         ELSE ApplyPatterns(link_patterns, 1, TRUE, text)

\* levels: "full", and every other value is the domain level
anonymize_all_links(text, anonymization_level) ==
    IF text = <<>> THEN text
    ELSE IF anonymization_level = "full"
         THEN ApplyPatterns(generic_replacements, 1, FALSE, text)
         ELSE ApplyPatterns(link_patterns, 1, TRUE, text)

----------------------------------------------------------------------------
(* The text rewriting of apply_anonymization                               *)

\* A mapping table (a dict) is the sequence of its items in insertion order,
\* [original |-> key, replacement |-> value], no key twice.  Replacements hold
\* no backslash, so re.sub inserts them as they are.

\* the value under key (the dict is known to have it)
Lookup(name_mappings, key) ==
    LET i == CHOOSE i \in 1..Len(name_mappings) : name_mappings[i].original = key
    IN  name_mappings[i].replacement

\* key in name_mappings
HasKey(name_mappings, key) ==
    \E i \in 1..Len(name_mappings) : name_mappings[i].original = key

\* name_mappings.items() as they are: the insertion order, no sort
insertion_order(name_mappings) == name_mappings

\* sorted(name_mappings.items(), key=lambda x: len(x[0]), reverse=True): longest
\* key first; sorted() is stable, also under reverse=True, so items with keys of
\* one length keep their insertion order
sorted_mappings(name_mappings) ==
    LET n == Len(name_mappings)
        before(i, j) ==
            \/ Len(name_mappings[i].original) > Len(name_mappings[j].original)
            \/ /\ Len(name_mappings[i].original) = Len(name_mappings[j].original)
               /\ i < j
        rank(j) == 1 + Cardinality({i \in 1..n : before(i, j)})
    IN  [r \in 1..n |-> name_mappings[CHOOSE j \in 1..n : rank(j) = r]]

\* r'\b' + re.escape(original) + r'\b'
word_pattern(original) == <<WordBoundary, Lit(original), WordBoundary>>

\* r'(?<=["\'\s])' + re.escape(original) + r'(?=["\'\s\.,!?])'
punct_pattern(original) ==
    <<LookBehind({"\"", "'"} \cup Whitespace),
      Lit(original),
      LookAhead({"\"", "'", ".", ",", "!", "?"} \cup Whitespace)>>

\* re.escape(original)
exact_pattern(original) == <<Lit(original)>>

\* len(original.split()) > 1: two words with whitespace between them
MultiWord(original) ==
    \E i, j, k \in 1..Len(original) :
        /\ i < j /\ j < k
        /\ original[i] \notin Whitespace
        /\ original[j] \in Whitespace
        /\ original[k] \notin Whitespace

\* an entry loop body that runs the exact pattern for every key, as a fallback
MainTextEntry_exact_always(text, original, replacement) ==
    IF Contains(Lower(text), Lower(original))
    THEN Sub(exact_pattern(original), replacement,
             Sub(punct_pattern(original), replacement,
                 Sub(word_pattern(original), replacement, text)))
    ELSE text

\* one mapping entry on the main message text (the body of the loop)
MainTextEntry(text, original, replacement) ==
    IF Contains(Lower(text), Lower(original))
    THEN LET t1 == Sub(word_pattern(original), replacement, text)
             t2 == Sub(punct_pattern(original), replacement, t1)
         IN  IF MultiWord(original)
             THEN Sub(exact_pattern(original), replacement, t2)
             ELSE t2
    ELSE text

\* the loop over sorted_mappings on the main message text, from entry k on
RECURSIVE MainTextMappings(_, _, _)
MainTextMappings(text, sorted, k) ==
    IF k > Len(sorted) THEN text
    ELSE LET t == MainTextEntry(text, sorted[k].original, sorted[k].replacement)
         IN  IF Len(t) >= 0 THEN MainTextMappings(t, sorted, k + 1) ELSE t

\* one mapping entry on the quoted text: the two patterns, one after the other
QuotedTextEntry(quoted_text, original, replacement) ==
    Sub(exact_pattern(original), replacement,
        Sub(word_pattern(original), replacement, quoted_text))

\* the loop over sorted_mappings on the quoted text, from entry k on
RECURSIVE QuotedTextMappings(_, _, _)
QuotedTextMappings(quoted_text, sorted, k) ==
    IF k > Len(sorted) THEN quoted_text
    ELSE LET t == QuotedTextEntry(quoted_text, sorted[k].original, sorted[k].replacement)
         IN  IF Len(t) >= 0 THEN QuotedTextMappings(t, sorted, k + 1) ELSE t

\* the loop over sorted_mappings on an attachment name, from entry k on
RECURSIVE FileNameMappings(_, _, _)
FileNameMappings(file_name, sorted, k) ==
    IF k > Len(sorted) THEN file_name
    ELSE LET t == Sub(exact_pattern(sorted[k].original), sorted[k].replacement, file_name)
         IN  IF Len(t) >= 0 THEN FileNameMappings(t, sorted, k + 1) ELSE t

\* "if st.session_state.get('link_anonymization', True): ... anonymize_all_links"
LinkStep(text, enabled, level) ==
    IF enabled THEN anonymize_all_links(text, level) ELSE text

\* a rewriter that classifies the links first and applies the mappings after
RewriteMainText_links_first(text, name_mappings, enabled, level) ==
    MainTextMappings(LinkStep(text, enabled, level), sorted_mappings(name_mappings), 1)

\* a rewriter that returns at once when the table is empty, the links untouched
RewriteMainText_empty_table_returns(text, name_mappings, enabled, level) ==
    IF name_mappings = <<>> THEN text
    ELSE LinkStep(MainTextMappings(text, sorted_mappings(name_mappings), 1), enabled, level)

\* step 3 of the walk on a non-empty string: the mappings, then the links
RewriteMainText(text, name_mappings, enabled, level) ==
    LinkStep(MainTextMappings(text, sorted_mappings(name_mappings), 1), enabled, level)

\* the quoted text of step 2 on a string: the mappings, then the links
RewriteQuotedText(quoted_text, name_mappings, enabled, level) ==
    LinkStep(QuotedTextMappings(quoted_text, sorted_mappings(name_mappings), 1),
             enabled, level)

----------------------------------------------------------------------------
(* Documents                                                               *)

\* A JSON value where the code expects a string: no such key, a string, or a
\* value that is not a string (a non-zero number: truthy, without str methods).
Absent == [k |-> "absent", v |-> <<>>]

Str(s) == [k |-> "str", v |-> s]

Num == [k |-> "num", v |-> <<>>]

\* A JSON value where the code expects a list: a list of items, or Num
ListValue(items) == [k |-> "list", v |-> items]

\* A message: created_date is its date string; creator.has says whether the
\* message has the key 'creator', quoted.has
\* whether it has 'quoted_message_metadata'; attached_files holds the original_name
\* of each attachment and reactions the value under 'reactor_emails' of each
\* reaction: the list of the reactors' addresses, or a value that is not a list.
\* A document is the sequence under its key 'messages'.

\* steps 1 and 2a: "if original_name in name_mappings: ... = name_mappings[original_name]"
MapName(name, name_mappings) ==
    IF name.k = "str" /\ HasKey(name_mappings, name.v)
    THEN Str(Lookup(name_mappings, name.v))
    ELSE name

\* re.sub and str.lower raise on a value that is not a string; they are only
\* reached inside the loop over the mapping entries
RaisesOn(value, name_mappings) == value.k = "num" /\ Len(name_mappings) > 0

\* The walk of apply_anonymization over one message of the copy, step by step.
\* A step that can raise gives [raised, message]: the message as the walk has
\* left it, and whether an exception left the walk there.

\* 1. message creator name
CreatorStep(message, name_mappings) ==
    IF message.creator.has
    THEN [message EXCEPT !.creator.name = MapName(@, name_mappings)]
    ELSE message

\* 2. quoted message creator
QuotedCreatorStep(message, name_mappings) ==
    IF message.quoted.has
    THEN [message EXCEPT !.quoted.creator_name = MapName(@, name_mappings)]
    ELSE message

\* 2. quoted message text: "if 'text' in message['quoted_message_metadata']"
QuotedTextStep(message, name_mappings, enabled, level) ==
    IF message.quoted.has /\ RaisesOn(message.quoted.text, name_mappings)
    THEN [raised |-> TRUE, message |-> message]
    ELSE IF message.quoted.has /\ message.quoted.text.k = "str"
    THEN [raised |-> FALSE,
          message |-> [message EXCEPT !.quoted.text =
                          Str(RewriteQuotedText(@.v, name_mappings, enabled, level))]]
    ELSE [raised |-> FALSE, message |-> message]

\* "if 'text' in message and message['text']"
HasMainText(message) ==
    message.text.k = "num" \/ (message.text.k = "str" /\ message.text.v # <<>>)

\* 3. main message text
MainTextStep(w, name_mappings, enabled, level) ==
    IF w.raised THEN w
    ELSE IF HasMainText(w.message) /\ RaisesOn(w.message.text, name_mappings)
    THEN [raised |-> TRUE, message |-> w.message]
    ELSE IF HasMainText(w.message) /\ w.message.text.k = "str"
    THEN [raised |-> FALSE,
          message |-> [w.message EXCEPT !.text =
                          Str(RewriteMainText(@.v, name_mappings, enabled, level))]]
    ELSE w

\* 4. attachment names
AttachmentStep(w, name_mappings) ==
    IF w.raised THEN w
    ELSE [raised |-> FALSE,
          message |-> [w.message EXCEPT !.attached_files =
                          [i \in 1..Len(@) |->
                              FileNameMappings(@[i], sorted_mappings(name_mappings), 1)]]]

\* the body of the loop over the messages
WalkMessage(message, name_mappings, enabled, level) ==
    AttachmentStep(
        MainTextStep(
            QuotedTextStep(
                QuotedCreatorStep(CreatorStep(message, name_mappings), name_mappings),
                name_mappings, enabled, level),
            name_mappings, enabled, level),
        name_mappings)

\* "for message in anonymized_data.get('messages', [])", from message k on: the
\* messages of the copy when the loop ends or raises.  WalkOn goes on behind
\* message k, whose walk gave w.
RECURSIVE WalkFrom(_, _, _, _, _)
RECURSIVE WalkOn(_, _, _, _, _, _)
WalkOn(messages, k, w, name_mappings, enabled, level) ==
    IF w.raised
    THEN [raised |-> TRUE, messages |-> [messages EXCEPT ![k] = w.message]]
    ELSE WalkFrom([messages EXCEPT ![k] = w.message], k + 1, name_mappings, enabled, level)

WalkFrom(messages, k, name_mappings, enabled, level) ==
    IF k > Len(messages) THEN [raised |-> FALSE, messages |-> messages]
    ELSE WalkOn(messages, k, WalkMessage(messages[k], name_mappings, enabled, level),
                name_mappings, enabled, level)

\* The objects of one call, by reference: "data" is the caller's object, and
\* anonymized_data names the object the walk writes to.

\* anonymized_data = data: the name bound to the caller's object, no copy
SameObject(data) ==
    [anonymized_data |-> "data", objects |-> [data |-> data, copy |-> data]]

\* anonymized_data = json.loads(json.dumps(data)): a new object, equal to data
\* (data came out of json.load, and the round trip keeps such a value)
DeepCopy(data) ==
    [anonymized_data |-> "copy", objects |-> [data |-> data, copy |-> data]]

\* the end of a call that hands back anonymized_data whether or not the walk raised
Outcome_returns_copy(c, w) ==
    LET objects == [c.objects EXCEPT ![c.anonymized_data] = w.messages]
    IN  [original |-> objects.data,
         returned |-> objects[c.anonymized_data],
         error    |-> w.raised]

\* the end of a call on the objects c whose walk gave w:
\*   original - the caller's object data after the call
\*   returned - the returned document: anonymized_data, or data when the walk raised
\*   error    - whether st.error reported a failure
Outcome(c, w) ==
    LET \* the walk assigns into the object anonymized_data names
        objects == [c.objects EXCEPT ![c.anonymized_data] = w.messages]
    IN  [original |-> objects.data,
         returned |-> IF w.raised THEN objects.data ELSE objects[c.anonymized_data],
         error    |-> w.raised]

\* the try block on the objects c
WalkObjects(c, name_mappings, enabled, level) ==
    Outcome(c, WalkFrom(c.objects[c.anonymized_data], 1, name_mappings, enabled, level))

\* apply_anonymization(data, name_mappings) with the session's link settings
apply_anonymization(data, name_mappings, enabled, level) ==
    WalkObjects(DeepCopy(data), name_mappings, enabled, level)

----------------------------------------------------------------------------
(* create_anonymization_mappings                                           *)

\* the printable ASCII characters in code order (str comparison goes by code);
\* the grave accent is left out, no text of the model has it
Ascii ==
    <<
      " ", "!", "\"", "#", "$", "%", "&", "'", "(", ")", "*", "+",
      ",", "-", ".", "/", "0", "1", "2", "3", "4", "5", "6", "7",
      "8", "9", ":", ";", "<", "=", ">", "?", "@", "A", "B", "C",
      "D", "E", "F", "G", "H", "I", "J", "K", "L", "M", "N", "O",
      "P", "Q", "R", "S", "T", "U", "V", "W", "X", "Y", "Z", "[",
      "\\", "]", "^", "_", "a", "b", "c", "d", "e", "f", "g",
      "h", "i", "j", "k", "l", "m", "n", "o", "p", "q", "r", "s",
      "t", "u", "v", "w", "x", "y", "z", "{", "|", "}", "~"
    >>

\* the place of a character in the order of sorted(); control characters first
Code(c) == IF \E i \in 1..Len(Ascii) : Ascii[i] = c
           THEN CHOOSE i \in 1..Len(Ascii) : Ascii[i] = c
           ELSE 0

\* a < b for str
StrLess(a, b) ==
    \/ (Len(a) < Len(b) /\ \A i \in 1..Len(a) : a[i] = b[i])
    \/ \E i \in 1..Len(a) :
          /\ i <= Len(b)
          /\ Code(a[i]) < Code(b[i])
          /\ \A j \in 1..(i - 1) : a[j] = b[j]

\* str.strip()
Strip(s) ==
    LET keep == {i \in 1..Len(s) : s[i] \notin Whitespace}
    IN  IF keep = {} THEN <<>> ELSE SubSeq(s, Min(keep), Max(keep))

\* the set S of strings as the list sorted(S) (key = the string itself)
SortedStrings(S) ==
    [r \in 1..Cardinality(S) |->
        CHOOSE x \in S : Cardinality({y \in S : StrLess(y, x)}) = r - 1]

\* sorted(names, key=str.lower).  Names that differ only in case come out in the
\* iteration order of the set, which varies from run to run: the documents of
\* the model hold no two such names (the order by code stands in for it here).
SortedByLower(S) ==
    LET before(y, x) ==
            \/ StrLess(Lower(y), Lower(x))
            \/ (Lower(y) = Lower(x) /\ StrLess(y, x))
    IN  [r \in 1..Cardinality(S) |->
            CHOOSE x \in S : Cardinality({y \in S : before(y, x)}) = r - 1]

\* EMAIL_PATTERN = r'\b[A-Za-z0-9._%+-]+@[A-Za-z0-9.-]+\.[A-Z|a-z]{2,}\b'
EMAIL_PATTERN ==
    <<WordBoundary,
      Plus(In(Letters \cup Digits \cup {".", "_", "%", "+", "-"})),
      Lit(<<"@">>),
      Plus(HostChars),
      Lit(<<".">>),
      Rep(In(Letters \cup {"|"}), 2, -1),
      WordBoundary>>

\* re.findall(pattern, text) as a set, from position i on
RECURSIVE FindAllFrom(_, _, _)
FindAllFrom(re, text, i) ==
    LET starts == {j \in MatchStarts(re, text) : j >= i} IN
    IF starts = {} THEN {}
    ELSE LET j == Min(starts)
             e == Max(Ends(re, 1, text, j))
         IN  {SubSeq(text, j, e - 1)} \cup FindAllFrom(re, text, e)

\* the names and the emails of one message; bad when the message raises
\* (str.strip or re.findall on a value that is not a string)
MessageEntities(message) ==
    LET hasName == message.creator.has /\ message.creator.name.k # "absent"
        stripped == Strip(message.creator.name.v)
        hasText == message.text.k = "num" \/ (message.text.k = "str" /\ message.text.v # <<>>)
    IN  [bad    |-> (hasName /\ message.creator.name.k = "num")
                        \/ (hasText /\ message.text.k = "num"),
         names  |-> IF hasName /\ stripped # <<>> THEN {stripped} ELSE {},
         emails |-> IF hasText
                    THEN {Lower(Strip(e)) : e \in FindAllFrom(EMAIL_PATTERN, message.text.v, 1)}
                    ELSE {}]

\* _extract_entities_from_messages(data)
extract_entities_from_messages(data) ==
    LET ents == [i \in 1..Len(data) |-> MessageEntities(data[i])]
    IN  [bad    |-> \E i \in 1..Len(data) : ents[i].bad,
         names  |-> UNION {ents[i].names : i \in 1..Len(data)},
         emails |-> UNION {ents[i].emails : i \in 1..Len(data)}]

\* str(n) for n >= 0
RECURSIVE Decimal(_)
Decimal(n) ==
    IF n < 10 THEN <<Ascii[Code("0") + n]>>
    ELSE Decimal(n \div 10) \o <<Ascii[Code("0") + (n % 10)]>>

\* f"Person {person_counter}"
PersonName(n) == <<"P", "e", "r", "s", "o", "n", " ">> \o Decimal(n)

\* f"person{email_counter}@{DEFAULT_EMAIL_DOMAIN}"
PersonEmail(n) ==
    <<"p", "e", "r", "s", "o", "n">> \o Decimal(n) \o
    <<"@", "e", "x", "a", "m", "p", "l", "e", ".", "c", "o", "m">>

\* the loop of _create_name_mappings and of _create_email_mappings over the
\* sorted entities, from entity k on, with the dict built so far and the counter;
\* auto(n) is the generated replacement
RECURSIVE CreateEntries(_, _, _, _, _, _)
CreateEntries(sorted, k, custom_mappings, mode, counter, built) ==
    IF k > Len(sorted) THEN built
    ELSE LET e == sorted[k]
             custom == HasKey(custom_mappings, e)
             own == [original |-> e, replacement |-> Lookup(custom_mappings, e)]
             gen == [original |-> e, replacement |-> counter.auto[counter.n]]
             next == [counter EXCEPT !.n = @ + 1]
         IN  IF mode = "manual"
             THEN CreateEntries(sorted, k + 1, custom_mappings, mode, counter,
                                IF custom THEN Append(built, own) ELSE built)
             ELSE IF mode = "mixed" /\ custom
             THEN CreateEntries(sorted, k + 1, custom_mappings, mode, counter,
                                Append(built, own))
             ELSE CreateEntries(sorted, k + 1, custom_mappings, mode, next,
                                Append(built, gen))

\* _create_name_mappings(names, custom_mappings, mode)
create_name_mappings(names, custom_mappings, mode) ==
    CreateEntries(SortedByLower(names), 1, custom_mappings, mode,
                  [n |-> 1, auto |-> [i \in 1..(Cardinality(names) + 1) |-> PersonName(i)]],
                  <<>>)

\* _create_email_mappings(emails, custom_mappings, mode)
create_email_mappings(emails, custom_mappings, mode) ==
    CreateEntries(SortedStrings(emails), 1, custom_mappings, mode,
                  [n |-> 1, auto |-> [i \in 1..(Cardinality(emails) + 1) |-> PersonEmail(i)]],
                  <<>>)

\* dict.update(other), from item k of other on: a key the dict has keeps its
\* place and takes the new value, a new key goes to the end
RECURSIVE DictUpdate(_, _, _)
DictUpdate(dict, other, k) ==
    IF k > Len(other) THEN dict
    ELSE LET it == other[k]
             d  == IF HasKey(dict, it.original)
                   THEN [i \in 1..Len(dict) |->
                           IF dict[i].original = it.original THEN it ELSE dict[i]]
                   ELSE Append(dict, it)
         IN  DictUpdate(d, other, k + 1)

SupportedModes == {"automatic", "manual", "mixed"}

\* a mode string that is none of the three
UnsupportedModes == {"auto"}

Modes == SupportedModes \cup UnsupportedModes

\* create_anonymization_mappings(data, custom_mappings, mode):
\*   raised   - ValueError for a mode that is not supported (it leaves the function)
\*   error    - an exception inside the try block, reported with st.error
\*   mappings - the returned dict
create_anonymization_mappings(data, custom_mappings, mode) ==
    IF mode \notin SupportedModes
    THEN [raised |-> TRUE, error |-> FALSE, mappings |-> <<>>]
    ELSE LET ents == extract_entities_from_messages(data)
             name_mappings == create_name_mappings(ents.names, custom_mappings, mode)
             email_mappings == create_email_mappings(ents.emails, custom_mappings, mode)
         IN  IF ents.bad
             THEN [raised |-> FALSE, error |-> TRUE, mappings |-> <<>>]
             ELSE [raised |-> FALSE, error |-> FALSE,
                   mappings |-> DictUpdate(DictUpdate(<<>>, name_mappings, 1),
                                           email_mappings, 1)]

----------------------------------------------------------------------------
(* parse_chat_message: the timestamp                                       *)

\* U+202F, the narrow no-break space of the exported dates
nnbsp == "u202f"

\* s.replace(old, new) from position i on (old is not empty)
RECURSIVE ReplaceFrom(_, _, _, _)
ReplaceFrom(s, old, new, i) ==
    IF i > Len(s) THEN <<>>
    ELSE IF i + Len(old) - 1 <= Len(s) /\ SubSeq(s, i, i + Len(old) - 1) = old
    THEN new \o ReplaceFrom(s, old, new, i + Len(old))
    ELSE <<s[i]>> \o ReplaceFrom(s, old, new, i + 1)

\* str.replace
Replace(s, old, new) == ReplaceFrom(s, old, new, 1)

\* s.split(): the runs of characters that are not whitespace
SplitWords(s) ==
    LET starts == {i \in 1..Len(s) :
                      s[i] \notin Whitespace /\ (i = 1 \/ s[i - 1] \in Whitespace)}
        nth(r) == CHOOSE i \in starts : Cardinality({j \in starts : j < i}) = r - 1
    IN  [r \in 1..Cardinality(starts) |->
            SubSeq(s, nth(r), nth(r) + RunLen(NotIn(Whitespace), s, nth(r), -1) - 1)]

\* s.split(c) for a character c
SplitOn(s, c) ==
    LET cuts == {i \in 1..Len(s) : s[i] = c}
        edge(r) == IF r = 0 THEN 0
                   ELSE IF r > Cardinality(cuts) THEN Len(s) + 1
                   ELSE CHOOSE i \in cuts : Cardinality({j \in cuts : j < i}) = r - 1
    IN  [r \in 1..(Cardinality(cuts) + 1) |-> SubSeq(s, edge(r - 1) + 1, edge(r) - 1)]

\* int(s) for a string of digits
RECURSIVE ParseInt(_)
ParseInt(s) ==
    IF s = <<>> THEN 0
    ELSE 10 * ParseInt(SubSeq(s, 1, Len(s) - 1)) + (Code(s[Len(s)]) - Code("0"))

\* the full weekday and month names of the C locale, which %A and %B accept in
\* any case

weekday_names ==
    <<<<"m", "o", "n", "d", "a", "y">>,
      <<"t", "u", "e", "s", "d", "a", "y">>,
      <<"w", "e", "d", "n", "e", "s", "d", "a", "y">>,
      <<"t", "h", "u", "r", "s", "d", "a", "y">>,
      <<"f", "r", "i", "d", "a", "y">>,
      <<"s", "a", "t", "u", "r", "d", "a", "y">>,
      <<"s", "u", "n", "d", "a", "y">>>>


month_names ==
    <<<<"j", "a", "n", "u", "a", "r", "y">>,
      <<"f", "e", "b", "r", "u", "a", "r", "y">>,
      <<"m", "a", "r", "c", "h">>,
      <<"a", "p", "r", "i", "l">>,
      <<"m", "a", "y">>,
      <<"j", "u", "n", "e">>,
      <<"j", "u", "l", "y">>,
      <<"a", "u", "g", "u", "s", "t">>,
      <<"s", "e", "p", "t", "e", "m", "b", "e", "r">>,
      <<"o", "c", "t", "o", "b", "e", "r">>,
      <<"n", "o", "v", "e", "m", "b", "e", "r">>,
      <<"d", "e", "c", "e", "m", "b", "e", "r">>>>


\* the alternatives of a directive that accepts one of the names
OneOf(names) == Alt([i \in 1..Len(names) |-> <<Lit(names[i])>>])

\* one character of the set c
One(c) == Rep(In(c), 1, 1)

\* "%A, %B %d, %Y %I:%M:%S %p %Z" as the pattern strptime compiles it to: a blank
\* of the format stands for \s+, %Z accepts utc, gmt and the names of the local
\* zone (taken to be UTC)
date_format ==
    <<OneOf(weekday_names), Lit(<<",">>), Plus(In(Whitespace)),
      OneOf(month_names), Plus(In(Whitespace)),
      Alt(<< <<Lit(<<"3">>), One({"0", "1"})>>,
             <<One({"1", "2"}), One(Digits)>>,
             <<Lit(<<"0">>), One(Digits \ {"0"})>>,
             <<One(Digits \ {"0"})>>,
             <<Lit(<<" ">>), One(Digits \ {"0"})>> >>),
      Lit(<<",">>), Plus(In(Whitespace)),
      Rep(In(Digits), 4, 4), Plus(In(Whitespace)),
      Alt(<< <<Lit(<<"1">>), One({"0", "1", "2"})>>,
             <<Lit(<<"0">>), One(Digits \ {"0"})>>,
             <<One(Digits \ {"0"})>> >>),
      Lit(<<":">>),
      Alt(<< <<One({"0", "1", "2", "3", "4", "5"}), One(Digits)>>, <<One(Digits)>> >>),
      Lit(<<":">>),
      Alt(<< <<Lit(<<"6">>), One({"0", "1"})>>,
             <<One({"0", "1", "2", "3", "4", "5"}), One(Digits)>>,
             <<One(Digits)>> >>),
      Plus(In(Whitespace)),
      Alt(<< <<Lit(<<"a", "m">>)>>, <<Lit(<<"p", "m">>)>> >>),
      Plus(In(Whitespace)),
      Alt(<< <<Lit(<<"u", "t", "c">>)>>, <<Lit(<<"g", "m", "t">>)>> >>)>>

IsLeap(year) == (year % 4 = 0 /\ year % 100 # 0) \/ year % 400 = 0

DaysInMonth(year, month) ==
    IF month = 2 THEN (IF IsLeap(year) THEN 29 ELSE 28)
    ELSE IF month \in {4, 6, 9, 11} THEN 30 ELSE 31

\* a naive datetime, to the second
DateTime(year, month, day, hour, minute, second) ==
    [year |-> year, month |-> month, day |-> day,
     hour |-> hour, minute |-> minute, second |-> second]

NoDateTime == DateTime(0, 0, 0, 0, 0, 0)

\* datetime.strptime(date_string, date_format): ok is FALSE for a ValueError
strptime(date_string) ==
    IF (Len(date_string) + 1) \notin Ends(date_format, 1, date_string, 1)
    THEN [ok |-> FALSE, v |-> NoDateTime]
    ELSE LET f == SplitWords(date_string)
             hms == SplitOn(f[5], ":")
             year == ParseInt(f[4])
             month == CHOOSE m \in 1..Len(month_names) : month_names[m] = Lower(f[2])
             day == ParseInt(SubSeq(f[3], 1, Len(f[3]) - 1))
             hour12 == ParseInt(hms[1]) % 12
             hour == IF Lower(f[6]) = <<"p", "m">> THEN hour12 + 12 ELSE hour12
             minute == ParseInt(hms[2])
             second == ParseInt(hms[3])
         IN  IF year < 1 \/ day > DaysInMonth(year, month) \/ second > 59
             THEN [ok |-> FALSE, v |-> NoDateTime]
             ELSE [ok |-> TRUE, v |-> DateTime(year, month, day, hour, minute, second)]

\* the days of the year before the first of the month
DaysBeforeMonth(year, month) ==
    LET sum[k \in 0..11] == IF k = 0 THEN 0 ELSE sum[k - 1] + DaysInMonth(year, k)
    IN  sum[month - 1]

\* date.toordinal(): the days since 0001-01-01, that day being 1
Ordinal(ts) ==
    LET y == ts.year - 1
    IN  y * 365 + (y \div 4) - (y \div 100) + (y \div 400)
          + DaysBeforeMonth(ts.year, ts.month) + ts.day

SecondOfDay(ts) == ts.hour * 3600 + ts.minute * 60 + ts.second

\* a < b for datetime
Earlier(a, b) ==
    \/ Ordinal(a) < Ordinal(b)
    \/ (Ordinal(a) = Ordinal(b) /\ SecondOfDay(a) < SecondOfDay(b))

\* "timestamp = datetime.strptime(...)", or "timestamp = datetime.now()" behind a
\* ValueError
ParsedOrNow(parsed, now) == IF parsed.ok THEN parsed.v ELSE now

\* "try: ... timestamp = datetime.strptime(...) except (KeyError, ValueError):
\* timestamp = datetime.now()" with the clock at now.  A created_date that is not a
\* string has no replace(): the AttributeError is none of the two and leaves the
\* block (raised).
ParseTimestamp(created_date, now) ==
    CASE created_date.k = "absent" -> [raised |-> FALSE, timestamp |-> now]
      [] created_date.k = "num" -> [raised |-> TRUE, timestamp |-> NoDateTime]
      [] OTHER ->
           [raised |-> FALSE,
            timestamp |->
                ParsedOrNow(
                    strptime(Replace(Replace(created_date.v, <<" ", "a", "t", " ">>,
                                             <<" ">>),
                                     <<nnbsp>>, <<" ">>)),
                    now)]

----------------------------------------------------------------------------
(* parse_chat_message                                                      *)

\* U+1F4CE, and U+25AB U+FE0F (the default of a reaction without emoji)
paperclip == "U+1F4CE"

\* U+0060, the grave accent
backtick == "U+0060"

small_square == <<"U+25AB", "U+FE0F">>

\* str(value) of a field: the string itself, and "5" for the number
AsText(value) == IF value.k = "num" THEN <<"5">> ELSE value.v

\* s[:n]
Truncate(s, n) == IF Len(s) > n THEN SubSeq(s, 1, n) ELSE s

\* sep.join(list)
RECURSIVE Join(_, _)
Join(sep, list) ==
    IF list = <<>> THEN <<>>
    ELSE IF Len(list) = 1 THEN list[1]
    ELSE list[1] \o sep \o Join(sep, Tail(list))

\* "text = message.get('text', ''); if not isinstance(text, str): text = str(text)",
\* then the mapping entries, longest key first, when there are mappings and text
DisplayText(message, name_mappings) ==
    LET text == IF message.text.k = "absent" THEN <<>> ELSE AsText(message.text)
    IN  IF name_mappings # <<>> /\ text # <<>>
        THEN MainTextMappings(text, sorted_mappings(name_mappings), 1)
        ELSE text

\* "\n\n> (paperclip) **Attachment:** `"
attachment_head ==
    <<"\n", "\n", ">", " ", paperclip, " ", "*", "*", "A", "t", "t", "a", "c", "h", "m",
      "e", "n", "t", ":", "*", "*", " ", backtick>>

\* attachment_md
AttachmentMarkdown(message) ==
    Join(<<>>, [i \in 1..Len(message.attached_files) |->
                   attachment_head \o Truncate(message.attached_files[i], 100)
                       \o <<backtick>>])

\* reactions_md of a block whose except keeps what the loop had collected
ReactionsMarkdown_keeps_collected(message) ==
    LET bad == {i \in 1..Len(message.reactions) : message.reactions[i].k # "list"}
        good == IF bad = {} THEN message.reactions
                ELSE SubSeq(message.reactions, 1,
                            (CHOOSE i \in bad : \A j \in bad : i <= j) - 1)
        shown == SelectSeq(good, LAMBDA reactor_emails : Len(reactor_emails.v) > 0)
        reaction_list == [i \in 1..Len(shown) |->
                             small_square \o <<" ">> \o Decimal(Len(shown[i].v))]
    IN  IF reaction_list = <<>> THEN <<>>
        ELSE <<"\n", "\n">> \o Join(<<" ">>, reaction_list)

\* reactions_md: the reactions with at least one reactor, "emoji count" each.
\* len() raises TypeError on reactor_emails that is not a list; the except of the
\* block leaves reactions_md as it was before the loop, empty.
ReactionsMarkdown(message) ==
    LET shown == SelectSeq(message.reactions,
                           LAMBDA reactor_emails : Len(reactor_emails.v) > 0)
        reaction_list == [i \in 1..Len(shown) |->
                             small_square \o <<" ">> \o Decimal(Len(shown[i].v))]
    IN  IF \E i \in 1..Len(message.reactions) : message.reactions[i].k # "list"
        THEN <<>>
        ELSE IF reaction_list = <<>> THEN <<>>
        ELSE <<"\n", "\n">> \o Join(<<" ">>, reaction_list)

\* "if len(quote_text) > 100: quote_text = quote_text[:100] + '...'"
QuoteExcerpt(quote_text) ==
    IF Len(quote_text) > 100
    THEN SubSeq(quote_text, 1, 100) \o <<".", ".", ".">>
    ELSE quote_text

\* the quoted text as the quote shows it: stripped, the mapping entries applied,
\* cut to an excerpt
QuoteText(quote_text, name_mappings) ==
    QuoteExcerpt(IF name_mappings # <<>>
                 THEN MainTextMappings(Strip(quote_text), sorted_mappings(name_mappings), 1)
                 ELSE Strip(quote_text))

\* quote_author
QuoteAuthor(quoted, name_mappings) ==
    IF quoted.creator_name.k = "absent"
    THEN <<"S", "o", "m", "e", "o", "n", "e">>
    ELSE AsText(MapName(quoted.creator_name, name_mappings))

\* quote_md: nothing without 'quoted_message_metadata' and nothing for a quoted
\* text that is not a string or is blank; a missing text reads '...'
QuoteMarkdown(message, name_mappings) ==
    IF ~message.quoted.has \/ message.quoted.text.k = "num"
    THEN <<>>
    ELSE IF message.quoted.text.k = "str" /\ Strip(message.quoted.text.v) = <<>>
    THEN <<>>
    ELSE <<">", " ", "*", "*">> \o QuoteAuthor(message.quoted, name_mappings)
             \o <<" ", "s", "a", "i", "d", ":", "*", "*", "\n", ">", " ">>
             \o QuoteText(IF message.quoted.text.k = "absent"
                          THEN <<".", ".", ".">>
                          ELSE message.quoted.text.v,
                          name_mappings)
             \o <<"\n", "\n">>

\* the record parse_chat_message returns
NormalizedMessage(name, timestamp, full_text, original_name) ==
    [name |-> name, timestamp |-> timestamp, full_text |-> full_text,
     original_name |-> original_name]

\* the rest of parse_chat_message behind the timestamp block, which gave t
NormalizeWith(message, name_mappings, t) ==
    IF t.raised
    THEN [none |-> TRUE, v |-> <<>>]
    ELSE [none |-> FALSE,
          v |-> NormalizedMessage(
                    MapName(message.creator.name, name_mappings),
                    t.timestamp,
                    QuoteMarkdown(message, name_mappings)
                        \o DisplayText(message, name_mappings)
                        \o AttachmentMarkdown(message)
                        \o ReactionsMarkdown(message),
                    message.creator.name)]

\* a normalizer without the check for creator.name
parse_chat_message_unfiltered(message, name_mappings, now) ==
    NormalizeWith(message, name_mappings, ParseTimestamp(message.created_date, now))

\* parse_chat_message(message, name_mappings) with the clock at now: none is TRUE
\* for the return value None
parse_chat_message(message, name_mappings, now) ==
    IF ~message.creator.has \/ message.creator.name.k = "absent"
    THEN [none |-> TRUE, v |-> <<>>]
    ELSE NormalizeWith(message, name_mappings, ParseTimestamp(message.created_date, now))

\* "for i, msg in enumerate(data['messages']): parsed_msg = parse_chat_message(...);
\* if parsed_msg: parsed_messages.append(parsed_msg)", nows[i] being the clock
\* while message i is parsed
ParsedMessages(messages, name_mappings, nows) ==
    LET parsed == [i \in 1..Len(messages) |->
                      parse_chat_message(messages[i], name_mappings, nows[i])]
        kept == SelectSeq(parsed, LAMBDA p : ~p.none)
    IN  [i \in 1..Len(kept) |-> kept[i].v]

\* sorted(parsed_messages, key=lambda x: x['timestamp']): a stable sort
SortedByTimestamp(parsed_messages) ==
    LET n == Len(parsed_messages)
        before(i, j) ==
            \/ Earlier(parsed_messages[i].timestamp, parsed_messages[j].timestamp)
            \/ /\ ~Earlier(parsed_messages[j].timestamp, parsed_messages[i].timestamp)
               /\ i < j
        rank(j) == 1 + Cardinality({i \in 1..n : before(i, j)})
    IN  [r \in 1..n |-> parsed_messages[CHOOSE j \in 1..n : rank(j) = r]]

\* the number of messages on a page
MESSAGES_PER_PAGE == 50

\* a number of pages that counts the messages instead of the last index
TotalPagesOf_rounds_up_always(sorted_messages, messages_per_page) ==
    Len(sorted_messages) \div messages_per_page + 1

\* total_pages for the page size messages_per_page
TotalPagesOf(sorted_messages, messages_per_page) ==
    (Len(sorted_messages) - 1) \div messages_per_page + 1

\* page_messages for the page the number input holds and the page size
\* messages_per_page; a slice ends where the list ends
PageMessagesOf(sorted_messages, page, messages_per_page) ==
    IF TotalPagesOf(sorted_messages, messages_per_page) > 1
    THEN LET start_idx == (page - 1) * messages_per_page
             end_idx == Min({start_idx + messages_per_page, Len(sorted_messages)})
         IN  SubSeq(sorted_messages, start_idx + 1, end_idx)
    ELSE sorted_messages

\* total_pages, the page size being MESSAGES_PER_PAGE
TotalPages(sorted_messages) == TotalPagesOf(sorted_messages, MESSAGES_PER_PAGE)

\* the values of page: those of the number input, which is there when there is
\* more than one page, and 1 otherwise
Pages(parsed_messages) ==
    IF parsed_messages = <<>> THEN {1} ELSE 1..TotalPages(parsed_messages)

\* page_messages for the page the number input holds
PageMessages(sorted_messages, page) ==
    PageMessagesOf(sorted_messages, page, MESSAGES_PER_PAGE)

\* what the transcript shows of the parsed messages: nothing when there is none
\* (a warning), the messages of the page of the sorted list otherwise
ShownPage(parsed_messages, page) ==
    IF parsed_messages = <<>> THEN <<>>
    ELSE PageMessages(SortedByTimestamp(parsed_messages), page)

----------------------------------------------------------------------------
(* create_message_statistics                                               *)

\* the keys in the order in which they first occur, each counted once
Counter_of_distinct_keys(keys) ==
    LET firsts == {i \in 1..Len(keys) : \A j \in 1..(i - 1) : keys[j] # keys[i]}
        nth(r) == CHOOSE i \in firsts : Cardinality({j \in firsts : j < i}) = r - 1
    IN  [r \in 1..Cardinality(firsts) |-> [key |-> keys[nth(r)], count |-> 1]]

\* Counter(keys): the counts in the order in which the keys first occur
Counter(keys) ==
    LET firsts == {i \in 1..Len(keys) : \A j \in 1..(i - 1) : keys[j] # keys[i]}
        nth(r) == CHOOSE i \in firsts : Cardinality({j \in firsts : j < i}) = r - 1
    IN  [r \in 1..Cardinality(firsts) |->
            [key |-> keys[nth(r)],
             count |-> Cardinality({j \in 1..Len(keys) : keys[j] = keys[nth(r)]})]]

\* sum(counter.values())
RECURSIVE SumOfCounts(_)
SumOfCounts(counter) ==
    IF counter = <<>> THEN 0 ELSE Head(counter).count + SumOfCounts(Tail(counter))

\* counter.most_common(1)[0]: the first of the items with the highest count
MostCommon(counter) ==
    LET top == Max({counter[i].count : i \in 1..Len(counter)})
    IN  counter[Min({i \in 1..Len(counter) : counter[i].count = top})]

\* ts.date()
DateOf(ts) == [year |-> ts.year, month |-> ts.month, day |-> ts.day]

\* min(timestamps) and max(timestamps)
Earliest(timestamps) ==
    timestamps[Min({i \in 1..Len(timestamps) :
                       \A j \in 1..Len(timestamps) : ~Earlier(timestamps[j], timestamps[i])})]

Latest(timestamps) ==
    timestamps[Min({i \in 1..Len(timestamps) :
                       \A j \in 1..Len(timestamps) : ~Earlier(timestamps[i], timestamps[j])})]

\* (end - start).days for start <= end
DaysBetween(start, end) ==
    Ordinal(end) - Ordinal(start)
        - (IF SecondOfDay(end) < SecondOfDay(start) THEN 1 ELSE 0)

\* the argument of create_message_statistics: a list of normalized messages, or a
\* dict, of which the loop sees the keys
ListOf(items) == [kind |-> "list", items |-> items]

DictOf(keys) == [kind |-> "dict", items |-> keys]

\* the try block on a list of normalized messages
StatisticsOf(messages) ==
    LET message_counts == Counter([i \in 1..Len(messages) |-> messages[i].name])
        original_counts == Counter([i \in 1..Len(messages) |-> messages[i].original_name])
        timestamps == [i \in 1..Len(messages) |-> messages[i].timestamp]
        start == Earliest(timestamps)
        end == Latest(timestamps)
        total_days == DaysBetween(start, end) + 1
        daily_counts == Counter([i \in 1..Len(messages) |-> DateOf(timestamps[i])])
    IN  [message_counts |-> message_counts,
         original_counts |-> original_counts,
         total_messages |-> Len(messages),
         unique_participants |-> Len(message_counts),
         date_range |-> [start |-> start, end |-> end, total_days |-> total_days],
         daily_counts |-> daily_counts,
         most_active_day |-> MostCommon(daily_counts),
         average_per_day |-> [num |-> Len(messages), den |-> Max({total_days, 1})]]

\* create_message_statistics(messages): empty is TRUE for the return value {},
\* error when st.error reported an exception.  msg['name'] raises TypeError on
\* the key of a dict, which is a str.
create_message_statistics(messages) ==
    IF messages.items = <<>>
    THEN [error |-> FALSE, empty |-> TRUE, v |-> <<>>]
    ELSE IF messages.kind = "dict"
    THEN [error |-> TRUE, empty |-> TRUE, v |-> <<>>]
    ELSE [error |-> FALSE, empty |-> FALSE, v |-> StatisticsOf(messages.items)]

----------------------------------------------------------------------------
(* _load_and_validate_chat_data and save_anonymized_data                   *)

\* a value that is not there yet, and one that is
NotRun == [done |-> FALSE, v |-> <<>>]

Done(v) == [done |-> TRUE, v |-> v]

\* What json.load gives for a file: kind is "invalid" for a file that is not JSON
\* (JSONDecodeError), "dict" for a JSON object and "other" for any other JSON
\* value; messages is the value under the key 'messages' of an object, a list
\* being [k |-> "list", v |-> the messages].
JsonFile(kind, messages) == [kind |-> kind, messages |-> messages]

\* the mutant of the validation: an empty 'messages' list passes
load_and_validate_accepts_empty(file) ==
    IF file.kind = "invalid" THEN [none |-> TRUE, report |-> "invalid json", data |-> <<>>]
    ELSE IF file.kind # "dict" THEN [none |-> TRUE, report |-> "not an object", data |-> <<>>]
    ELSE IF file.messages.k = "absent"
    THEN [none |-> TRUE, report |-> "no messages field", data |-> <<>>]
    ELSE IF file.messages.k # "list"
    THEN [none |-> TRUE, report |-> "messages not a list", data |-> <<>>]
    ELSE [none |-> FALSE, report |-> "", data |-> file.messages.v]

\* _load_and_validate_chat_data on what json.load gives: none is TRUE for the
\* return value None, report is what st.error or st.warning told the user, data
\* the list under 'messages' of the returned document
load_and_validate_chat_data(file) ==
    IF file.kind = "invalid" THEN [none |-> TRUE, report |-> "invalid json", data |-> <<>>]
    ELSE IF file.kind # "dict" THEN [none |-> TRUE, report |-> "not an object", data |-> <<>>]
    ELSE IF file.messages.k = "absent"
    THEN [none |-> TRUE, report |-> "no messages field", data |-> <<>>]
    ELSE IF file.messages.k # "list"
    THEN [none |-> TRUE, report |-> "messages not a list", data |-> <<>>]
    ELSE IF Len(file.messages.v) = 0
    THEN [none |-> TRUE, report |-> "no messages found", data |-> <<>>]
    ELSE [none |-> FALSE, report |-> "", data |-> file.messages.v]

\* the three options of the save radio button
DONT_SAVE == "Don't save (view only)"

SAVE_TO_FOLDER == "Save to same folder"

ASK_WHERE == "Ask me where to save"

SaveOptions == {DONT_SAVE, SAVE_TO_FOLDER, ASK_WHERE}

\* "_anonymized"
anonymized_suffix == <<"_", "a", "n", "o", "n", "y", "m", "i", "z", "e", "d">>

\* anonymized_filename: the suffix goes in front of the last dot
AnonymizedFilename(original_filename) ==
    LET dots == {i \in 1..Len(original_filename) : original_filename[i] = "."}
    IN  IF dots # {}
        THEN SubSeq(original_filename, 1, Max(dots) - 1) \o anonymized_suffix
                 \o SubSeq(original_filename, Max(dots), Len(original_filename))
        ELSE original_filename \o anonymized_suffix

\* save_anonymized_data(data, original_filename, save_option); writable says
\* whether open(anonymized_filename, 'w') succeeds.  saved is what the call
\* leaves: nothing, the file written or the download offered.
save_anonymized_data(data, original_filename, save_option, writable) ==
    IF save_option = DONT_SAVE
    THEN [error |-> FALSE, saved |-> NotRun]
    ELSE IF save_option = SAVE_TO_FOLDER
    THEN IF writable
         THEN [error |-> FALSE,
               saved |-> Done([how |-> "file",
                               file_name |-> AnonymizedFilename(original_filename),
                               document |-> data])]
         ELSE [error |-> TRUE, saved |-> NotRun]
    ELSE [error |-> FALSE,
          saved |-> Done([how |-> "download",
                          file_name |-> AnonymizedFilename(original_filename),
                          document |-> data])]

----------------------------------------------------------------------------
(* The custom mappings of the session (src/ui.py)                          *)

\* where sep first occurs in s, 0 when it does not
FirstAt(s, sep) ==
    LET at == {i \in 1..(Len(s) - Len(sep) + 1) : SubSeq(s, i, i + Len(sep) - 1) = sep}
    IN  IF at = {} THEN 0 ELSE Min(at)

\* s.split(sep)[0]
FirstPiece(s, sep) ==
    IF FirstAt(s, sep) = 0 THEN s ELSE SubSeq(s, 1, FirstAt(s, sep) - 1)

\* s.split(sep)[1], for an s that holds sep
SecondPiece(s, sep) ==
    FirstPiece(SubSeq(s, FirstAt(s, sep) + Len(sep), Len(s)), sep)

\* s.rstrip(c)
RStrip(s, c) ==
    LET keep == {i \in 1..Len(s) : s[i] # c}
    IN  IF keep = {} THEN <<>> ELSE SubSeq(s, 1, Max(keep))

\* 'N/A', the email of a participant without one
NoEmail == <<"N", "/", "A">>

\* an option of the participant select box: f"{name} ({email})"
ParticipantOption(name, email) == name \o <<" ", "(">> \o email \o <<")">>

\* what a handler leaves: the list, and what it told the user
SessionResult(mappings, report) == [custom_mappings |-> mappings, report |-> report]

\* handle_add_mapping(original, replacement) on the list mappings of the session
handle_add_mapping(mappings, original, replacement) ==
    IF Strip(original) = <<>>
    THEN SessionResult(mappings, {"original empty"})
    ELSE IF Strip(replacement) = <<>>
    THEN SessionResult(mappings, {"replacement empty"})
    ELSE IF \E i \in 1..Len(mappings) : mappings[i].original = Strip(original)
    THEN SessionResult(mappings, {"mapping exists"})
    ELSE SessionResult(
             Append(mappings,
                    [original |-> Strip(original), replacement |-> Strip(replacement)]),
             {})

\* the "Add" button of the quick anonymization form, for the selected option and
\* the two replacement fields
quick_add(mappings, selected_participant, replacement_name, replacement_email) ==
    LET original_name == FirstPiece(selected_participant, <<" ", "(">>)
        original_email == RStrip(SecondPiece(selected_participant, <<" ", "(">>), ")")
        with_name == Append(mappings, [original |-> original_name,
                                       replacement |-> replacement_name])
    IN  IF replacement_name = <<>>
        THEN SessionResult(mappings, {"replacement name empty"})
        ELSE IF original_email # NoEmail /\ replacement_email # <<>>
        THEN SessionResult(Append(with_name, [original |-> original_email,
                                              replacement |-> replacement_email]), {})
        ELSE SessionResult(with_name, {})

\* st.session_state.custom_mappings.pop(i), i counted from 1
PopMapping(mappings, i) ==
    SubSeq(mappings, 1, i - 1) \o SubSeq(mappings, i + 1, Len(mappings))

\* "custom_mappings[original] = replacement" on a dict held in insertion order
SetItem(table, original, replacement) ==
    IF \E i \in 1..Len(table) : table[i].original = original
    THEN [i \in 1..Len(table) |->
             IF table[i].original = original
             THEN [original |-> original, replacement |-> replacement]
             ELSE table[i]]
    ELSE Append(table, [original |-> original, replacement |-> replacement])

\* a getter that takes the fields of the session list as they are
RECURSIVE get_custom_mappings_unstripped(_)
get_custom_mappings_unstripped(mappings) ==
    IF mappings = <<>> THEN <<>>
    ELSE LET last == mappings[Len(mappings)]
             before == get_custom_mappings_unstripped(SubSeq(mappings, 1, Len(mappings) - 1))
         IN  IF last.original # <<>> /\ last.replacement # <<>>
             THEN SetItem(before, last.original, last.replacement)
             ELSE before

\* get_custom_mappings_from_session() on the list mappings of the session: both
\* fields stripped, an entry with an empty one left out
RECURSIVE get_custom_mappings_from_session(_)
get_custom_mappings_from_session(mappings) ==
    IF mappings = <<>> THEN <<>>
    ELSE LET last == mappings[Len(mappings)]
             before == get_custom_mappings_from_session(
                           SubSeq(mappings, 1, Len(mappings) - 1))
         IN  IF Strip(last.original) # <<>> /\ Strip(last.replacement) # <<>>
             THEN SetItem(before, Strip(last.original), Strip(last.replacement))
             ELSE before

----------------------------------------------------------------------------
(* Inputs of the model                                                     *)

\* "https://docs.google.com/document/d/a1"
url_docs == <<"h", "t", "t", "p", "s", ":", "/", "/", "d", "o", "c", "s", ".", "g", "o",
              "o", "g", "l", "e", ".", "c", "o", "m", "/", "d", "o", "c", "u", "m", "e",
              "n", "t", "/", "d", "/", "a", "1">>

\* "https://mail.google.com/u "
url_gmail == <<"h", "t", "t", "p", "s", ":", "/", "/", "m", "a", "i", "l", ".", "g", "o",
               "o", "g", "l", "e", ".", "c", "o", "m", "/", "u", " ">>

\* " https://github.com/a"
url_github == <<" ", "h", "t", "t", "p", "s", ":", "/", "/", "g", "i", "t", "h", "u", "b",
                ".", "c", "o", "m", "/", "a">>

\* "http://a.co"
url_http_a == <<"h", "t", "t", "p", ":", "/", "/", "a", ".", "c", "o">>

\* " http://b.co/x"
url_http_b == <<" ", "h", "t", "t", "p", ":", "/", "/", "b", ".", "c", "o", "/", "x">>

\* "see "
word_see == <<"s", "e", "e", " ">>

\* "a@b.co"
addr_ab == <<"a", "@", "b", ".", "c", "o">>

\* "and/or"
word_andor == <<"a", "n", "d", "/", "o", "r">>

\* "\\srv\f"
unc_path == <<"\\", "\\", "s", "r", "v", "\\", "f">>

\* "https://x.google.com/q="
url_redirect == <<"h", "t", "t", "p", "s", ":", "/", "/", "x", ".", "g", "o", "o", "g",
                  "l", "e", ".", "c", "o", "m", "/", "q", "=">>

\* "ftp://h/f"
url_ftp == <<"f", "t", "p", ":", "/", "/", "h", "/", "f">>

\* " C:\tmp"
drive_path == <<" ", "C", ":", "\\", "t", "m", "p">>

\* "John Smith"
txt_john_smith == <<"J", "o", "h", "n", " ", "S", "m", "i", "t", "h">>

\* " said hi"
txt_said_hi == <<" ", "s", "a", "i", "d", " ", "h", "i">>

\* "contact:a@b.com!"
txt_contact == <<"c", "o", "n", "t", "a", "c", "t", ":", "a", "@", "b", ".", "c", "o", "m",
                 "!">>

\* "xa@b.com"
txt_xemail == <<"x", "a", "@", "b", ".", "c", "o", "m">>

\* "Also Al."
txt_also == <<"A", "l", "s", "o", " ", "A", "l", ".">>

\* "Email me at alice@x.com or visit https://github.com/alice/repo"
txt_scenario == <<"E", "m", "a", "i", "l", " ", "m", "e", " ", "a", "t", " ", "a", "l",
                  "i", "c", "e", "@", "x", ".", "c", "o", "m", " ", "o", "r", " ", "v",
                  "i", "s", "i", "t", " ", "h", "t", "t", "p", "s", ":", "/", "/", "g",
                  "i", "t", "h", "u", "b", ".", "c", "o", "m", "/", "a", "l", "i", "c",
                  "e", "/", "r", "e", "p", "o">>

\* "John"
k_john == <<"J", "o", "h", "n">>

\* "John Smith"
k_john_smith == <<"J", "o", "h", "n", " ", "S", "m", "i", "t", "h">>

\* "a@b.com"
k_email == <<"a", "@", "b", ".", "c", "o", "m">>

\* "Alice"
k_alice == <<"A", "l", "i", "c", "e">>

\* "alice@x.com"
k_alice_email == <<"a", "l", "i", "c", "e", "@", "x", ".", "c", "o", "m">>

\* "Al"
k_al == <<"A", "l">>

\* "Bob"
k_bob == <<"B", "o", "b">>

\* "bob@y.org"
k_bob_email == <<"b", "o", "b", "@", "y", ".", "o", "r", "g">>

\* "Acme Corp"
k_acme == <<"A", "c", "m", "e", " ", "C", "o", "r", "p">>

\* " Alice "
k_alice_spaced == <<" ", "A", "l", "i", "c", "e", " ">>

\* "P1"
r_p1 == <<"P", "1">>

\* "P2"
r_p2 == <<"P", "2">>

\* "x@y.com"
r_email == <<"x", "@", "y", ".", "c", "o", "m">>

\* "Person1"
r_person1 == <<"P", "e", "r", "s", "o", "n", "1">>

\* "person1@example.com"
r_person1_email == <<"p", "e", "r", "s", "o", "n", "1", "@", "e", "x", "a", "m", "p", "l",
                     "e", ".", "c", "o", "m">>

\* "Bo"
r_bo == <<"B", "o">>

\* "j@e.co"
r_john_email == <<"j", "@", "e", ".", "c", "o">>

\* "b@e.co"
r_bob_email == <<"b", "@", "e", ".", "c", "o">>

\* "Company"
r_company == <<"C", "o", "m", "p", "a", "n", "y">>

\* "Email me at alice@x.com"
txt_mail_me == <<"E", "m", "a", "i", "l", " ", "m", "e", " ", "a", "t", " ", "a", "l", "i",
                 "c", "e", "@", "x", ".", "c", "o", "m">>

\* "hi Alice"
txt_hi_alice == <<"h", "i", " ", "A", "l", "i", "c", "e">>

\* "Alice said hi"
txt_alice_said == <<"A", "l", "i", "c", "e", " ", "s", "a", "i", "d", " ", "h", "i">>

\* "alice.txt"
txt_alice_file == <<"a", "l", "i", "c", "e", ".", "t", "x", "t">>

\* "joined"
txt_joined == <<"j", "o", "i", "n", "e", "d">>

\* "see Acme Corp"
txt_acme == <<"s", "e", "e", " ", "A", "c", "m", "e", " ", "C", "o", "r", "p">>

\* fragments of link texts
LinkFrags ==
    {url_docs, url_gmail, url_github, url_http_a, url_http_b, word_see, addr_ab,
     word_andor, unc_path, url_redirect, url_ftp, drive_path}

\* fragments of message texts
TextFrags ==
    {txt_john_smith, txt_said_hi, txt_contact, txt_xemail, txt_also,
     txt_scenario}

\* a text is made of at most this many fragments
MaxFrags == 2

\* a document holds at most this many messages
MaxMsgs == 2

RECURSIVE Concat(_)
Concat(ss) == IF ss = <<>> THEN <<>> ELSE Head(ss) \o Concat(Tail(ss))

TextsOf(frags) == {Concat(fs) : fs \in UNION {[1..n -> frags] : n \in 0..MaxFrags}}

Entry(k, r) == [original |-> k, replacement |-> r]

\* mapping tables for the text rewriting
TextTables ==
    {<<>>,
     <<Entry(k_john, r_p1), Entry(k_john_smith, r_p2)>>,
     <<Entry(k_email, r_email)>>,
     <<Entry(k_alice, r_person1), Entry(k_alice_email, r_person1_email)>>,
     <<Entry(k_al, r_bo)>>,
     <<Entry(k_john, r_john_email)>>}

\* the link settings render_mode_selection can leave in the session: the level is
\* "domain" whenever the checkbox is off
LinkSettings ==
    {[enabled |-> TRUE, level |-> "domain"],
     [enabled |-> TRUE, level |-> "full"],
     [enabled |-> FALSE, level |-> "domain"]}

\* "Monday, January 1, 2024 at 10:00:00(U+202F)AM UTC"
date_jan1 == <<"M", "o", "n", "d", "a", "y", ",", " ", "J", "a", "n", "u", "a", "r", "y", " ",
               "1", ",", " ", "2", "0", "2", "4", " ", "a", "t", " ", "1", "0", ":", "0", "0",
               ":", "0", "0", nnbsp, "A", "M", " ", "U", "T", "C">>

\* "Tuesday, January 2, 2024 at 9:30:00 PM UTC"
date_jan2 == <<"T", "u", "e", "s", "d", "a", "y", ",", " ", "J", "a", "n", "u", "a", "r", "y",
               " ", "2", ",", " ", "2", "0", "2", "4", " ", "a", "t", " ", "9", ":", "3", "0",
               ":", "0", "0", " ", "P", "M", " ", "U", "T", "C">>

\* "Wednesday, January 3, 2024 at 12:00:01 AM UTC"
date_jan3 == <<"W", "e", "d", "n", "e", "s", "d", "a", "y", ",", " ", "J", "a", "n", "u", "a",
               "r", "y", " ", "3", ",", " ", "2", "0", "2", "4", " ", "a", "t", " ", "1", "2",
               ":", "0", "0", ":", "0", "1", " ", "A", "M", " ", "U", "T", "C">>

\* "2024-01-03T08:00:00Z"
date_iso == <<"2", "0", "2", "4", "-", "0", "1", "-", "0", "3", "T", "0", "8", ":", "0", "0",
              ":", "0", "0", "Z">>

NoCreator == [has |-> FALSE, name |-> Absent, email |-> Absent]

NoQuote == [has |-> FALSE, creator_name |-> Absent, creator_email |-> Absent, text |-> Absent]

\* messages of the documents
msg_alice ==
    [created_date |-> Str(date_jan2),
     creator |-> [has |-> TRUE, name |-> Str(k_alice), email |-> Str(k_alice_email)],
     text |-> Str(txt_mail_me),
     quoted |-> NoQuote,
     attached_files |-> <<>>,
     reactions |-> <<ListValue(<<k_alice_email, k_bob_email>>)>>]

msg_bob ==
    [created_date |-> Str(date_jan1),
     creator |-> [has |-> TRUE, name |-> Str(k_bob), email |-> Absent],
     text |-> Str(txt_hi_alice),
     quoted |-> [has |-> TRUE, creator_name |-> Str(k_alice),
                 creator_email |-> Str(k_alice_email), text |-> Str(txt_alice_said)],
     attached_files |-> <<txt_alice_file>>,
     reactions |-> <<>>]

\* a message whose text is a number
msg_malformed ==
    [created_date |-> Str(date_jan1),
     creator |-> [has |-> TRUE, name |-> Str(k_bob), email |-> Absent],
     text |-> Num,
     quoted |-> NoQuote,
     attached_files |-> <<>>,
     reactions |-> <<>>]

\* a system message
msg_system ==
    [created_date |-> Str(date_jan1),
     creator |-> NoCreator,
     text |-> Str(txt_joined),
     quoted |-> NoQuote,
     attached_files |-> <<>>,
     reactions |-> <<>>]

msg_spaced ==
    [created_date |-> Absent,
     creator |-> [has |-> TRUE, name |-> Str(k_alice_spaced), email |-> Absent],
     text |-> Str(txt_acme),
     quoted |-> NoQuote,
     attached_files |-> <<>>,
     reactions |-> <<>>]

Messages == {msg_alice, msg_bob, msg_malformed, msg_system, msg_spaced}

\* a message whose date is in another format
msg_iso_date ==
    [created_date |-> Str(date_iso),
     creator |-> [has |-> TRUE, name |-> Str(k_alice), email |-> Str(k_alice_email)],
     text |-> Str(txt_hi_alice),
     quoted |-> NoQuote,
     attached_files |-> <<>>,
     reactions |-> <<>>]

\* a message whose date is a number
msg_numeric_date ==
    [created_date |-> Num,
     creator |-> [has |-> TRUE, name |-> Str(k_bob), email |-> Absent],
     text |-> Str(txt_acme),
     quoted |-> NoQuote,
     attached_files |-> <<>>,
     reactions |-> <<>>]

\* a message whose creator has no name, and whose other fields are populated
msg_nameless ==
    [created_date |-> Str(date_jan2),
     creator |-> [has |-> TRUE, name |-> Absent, email |-> Str(k_bob_email)],
     text |-> Str(txt_mail_me),
     quoted |-> [has |-> TRUE, creator_name |-> Str(k_alice),
                 creator_email |-> Absent, text |-> Str(txt_alice_said)],
     attached_files |-> <<txt_alice_file>>,
     reactions |-> <<ListValue(<<k_alice_email>>)>>]

\* a message that quotes a message whose text is a number
msg_bad_quote ==
    [created_date |-> Str(date_jan2),
     creator |-> [has |-> TRUE, name |-> Str(k_bob), email |-> Absent],
     text |-> Str(txt_hi_alice),
     quoted |-> [has |-> TRUE, creator_name |-> Str(k_alice),
                 creator_email |-> Absent, text |-> Num],
     attached_files |-> <<>>,
     reactions |-> <<>>]

\* a message with a quote, an attachment and two reactions, the second with
\* reactor_emails that is a number
msg_bad_reaction ==
    [created_date |-> Str(date_jan3),
     creator |-> [has |-> TRUE, name |-> Str(k_alice), email |-> Str(k_alice_email)],
     text |-> Str(txt_hi_alice),
     quoted |-> [has |-> TRUE, creator_name |-> Str(k_bob),
                 creator_email |-> Absent, text |-> Str(txt_alice_said)],
     attached_files |-> <<txt_alice_file>>,
     reactions |-> <<ListValue(<<k_bob_email>>), Num>>]

\* "messages.json"
file_name == <<"m", "e", "s", "s", "a", "g", "e", "s", ".", "j", "s", "o", "n">>

\* the documents of the files that pass the validation
LoadableDocuments ==
    {<<m>> : m \in Messages} \cup {<<msg_alice, msg_bob>>, <<msg_bob, msg_bad_quote>>}

\* the files a user can select
Files ==
    {JsonFile("invalid", Absent), JsonFile("other", Absent), JsonFile("dict", Absent),
     JsonFile("dict", Num), JsonFile("dict", ListValue(<<>>))}
        \cup {JsonFile("dict", ListValue(d)) : d \in LoadableDocuments}

\* messages for the normalizer
DatedMessages == {msg_alice, msg_bob, msg_system, msg_spaced, msg_iso_date,
                  msg_numeric_date, msg_nameless, msg_bad_reaction}

DatedDocuments == UNION {[1..n -> DatedMessages] : n \in 1..MaxMsgs}

\* what datetime.now() can give while the messages are parsed
Clock == {DateTime(2024, 1, 2, 23, 59, 59), DateTime(2024, 1, 3, 0, 0, 0)}

\* the clock at each of n calls, one after the other: it never runs backwards
Clocks(n) ==
    {nows \in [1..n -> Clock] :
        \A i, j \in 1..n : i < j => ~Earlier(nows[j], nows[i])}

\* the transcript has at most this many messages
MaxShown == 21

\* page sizes of the "Messages per page" number input: from 10 on in steps of 10
PageSizes == {10, 20}

\* documents of named and dated messages: the three messages in turn, from any
\* of them on
PagedDocuments ==
    LET turn == <<msg_alice, msg_bob, msg_bad_reaction>>
    IN  {[i \in 1..n |-> turn[((i + k) % Len(turn)) + 1]] :
            n \in 1..MaxShown, k \in 1..Len(turn)}

\* " Bo"
r_bo_spaced == <<" ", "B", "o">>

\* the session holds at most this many custom mappings
MaxMappings == 3

\* what the user types into the two fields of the add form
TypedOriginals == {<<>>, <<" ">>, k_alice, k_alice_spaced, k_bob}

TypedReplacements == {<<>>, <<" ">>, r_person1, r_bo, r_bo_spaced}

\* the options of the participant select box: Alice has an email, Bob has none
ParticipantOptions ==
    {ParticipantOption(k_alice, k_alice_email), ParticipantOption(k_bob, NoEmail)}

\* what the user leaves in the email field of the quick form
TypedEmails == {<<>>, r_person1_email}

\* the documents that pass the validation of the loader: a non-empty list
Documents == UNION {[1..n -> Messages] : n \in 1..MaxMsgs}

\* mapping tables for documents; also the custom mappings of the session
DocTables ==
    {<<>>,
     <<Entry(k_alice, r_person1), Entry(k_alice_email, r_person1_email)>>,
     <<Entry(k_bob_email, r_bob_email), Entry(k_bob, r_bo)>>,
     <<Entry(k_acme, r_company)>>,
     <<Entry(k_alice, k_bob), Entry(k_bob, r_bo)>>}

----------------------------------------------------------------------------
(* State                                                                   *)

VARIABLES
    text,                \* a text handed to the text functions
    link_out,            \* anonymize_all_links(text, link_level), once computed
    link_again,          \* anonymize_all_links of link_out, once computed
    quoted_out,          \* text rewritten as a quoted text, once computed
    main_out,            \* text rewritten as a main message text, once computed
    data,                \* the loaded document (the caller's object)
    custom_mappings,     \* the custom mappings the interface hands over
    anonymization_mode,  \* the mode of the last create_anonymization_mappings call
    name_mappings,       \* the mapping table
    link_anonymization,  \* st.session_state['link_anonymization']
    link_level,          \* st.session_state['link_level']
    display_data,        \* the document apply_anonymization returned
    reported,            \* the failures reported with st.error or st.warning
    parsed_messages,     \* the normalized messages, once the messages are parsed
    page_messages,       \* the messages of the page the transcript shows
    stats,               \* what create_message_statistics returned
    file_json,           \* what json.load gives for the selected file
    save_option,         \* the save option of the radio button
    saved,               \* the file written or the download offered
    messages_per_page,   \* st.session_state['messages_per_page']
    page,                \* the page the number input of the transcript holds
    display_again,       \* the document a second apply_anonymization call returned
    pc                   \* where the run is

vars == <<text, link_out, link_again, quoted_out, main_out, data, custom_mappings,
          anonymization_mode, name_mappings, link_anonymization, link_level,
          display_data, reported, parsed_messages, page_messages, stats, file_json,
          save_option, saved, messages_per_page, page, display_again, pc>>

textVars == <<text, link_out, link_again, quoted_out, main_out>>

\* the file, and what the steps around apply_anonymization produce
flowVars == <<parsed_messages, page_messages, stats, file_json, save_option, saved,
              display_again>>

docVars == <<data, custom_mappings, anonymization_mode, display_data, reported, flowVars>>

\* the page size of the session and the page of the transcript
pagingVars == <<messages_per_page, page>>

NoText == text = <<>> /\ link_out = NotRun /\ link_again = NotRun
          /\ quoted_out = NotRun /\ main_out = NotRun

\* no file is modelled (the document is there), or none has been read
NoFile == [kind |-> "none", messages |-> Absent]

NoFlow == /\ parsed_messages = NotRun /\ page_messages = NotRun /\ stats = NotRun
          /\ file_json = NoFile /\ save_option = "none" /\ saved = NotRun
          /\ display_again = NotRun

\* the page size is a value of its number input, the transcript is at its start
NoPaging == messages_per_page = MESSAGES_PER_PAGE /\ page = 1

NoDocument == data = <<>> /\ custom_mappings = <<>> /\ anonymization_mode = "none"
              /\ display_data = NotRun /\ reported = {} /\ NoFlow

----------------------------------------------------------------------------
(* The link classifier as a function of its two arguments                  *)

InitLinks ==
    /\ text \in TextsOf(LinkFrags)
    /\ link_level \in {"domain", "full"}
    /\ link_anonymization = TRUE
    /\ link_out = NotRun /\ link_again = NotRun
    /\ quoted_out = NotRun /\ main_out = NotRun
    /\ name_mappings = <<>>
    /\ NoDocument
    /\ NoPaging
    /\ pc = "links"

\* anonymize_all_links(text, link_level)
ClassifyLinks ==
    /\ pc = "links" /\ ~link_out.done
    /\ link_out' = Done(anonymize_all_links(text, link_level))
    /\ UNCHANGED <<text, link_again, quoted_out, main_out, name_mappings,
                   link_anonymization, link_level, pc>>
    /\ UNCHANGED docVars
    /\ UNCHANGED pagingVars

\* anonymize_all_links on its own result
ClassifyAgain ==
    /\ pc = "links" /\ link_out.done /\ ~link_again.done
    /\ link_again' = Done(anonymize_all_links(link_out.v, link_level))
    /\ UNCHANGED <<text, link_out, quoted_out, main_out, name_mappings,
                   link_anonymization, link_level, pc>>
    /\ UNCHANGED docVars
    /\ UNCHANGED pagingVars

NextLinks == ClassifyLinks \/ ClassifyAgain

SpecLinks == InitLinks /\ [][NextLinks]_vars

----------------------------------------------------------------------------
(* The text rewriting of one message field                                 *)

InitText ==
    /\ text \in TextsOf(TextFrags)
    /\ name_mappings \in TextTables
    /\ \E s \in LinkSettings : link_anonymization = s.enabled /\ link_level = s.level
    /\ link_out = NotRun /\ link_again = NotRun
    /\ quoted_out = NotRun /\ main_out = NotRun
    /\ NoDocument
    /\ NoPaging
    /\ pc = "text"

\* step 2 of the walk on a quoted text ("if 'text' in ...": also the empty string)
RewriteQuoted ==
    /\ pc = "text" /\ ~quoted_out.done
    /\ quoted_out' =
          Done(RewriteQuotedText(text, name_mappings, link_anonymization, link_level))
    /\ UNCHANGED <<text, link_out, link_again, main_out, name_mappings,
                   link_anonymization, link_level, pc>>
    /\ UNCHANGED docVars
    /\ UNCHANGED pagingVars

\* step 3 of the walk on a main text ("if 'text' in message and message['text']")
RewriteMain ==
    /\ pc = "text" /\ quoted_out.done /\ ~main_out.done
    /\ main_out' =
          Done(IF text = <<>> THEN text
               ELSE RewriteMainText(text, name_mappings, link_anonymization, link_level))
    /\ UNCHANGED <<text, link_out, link_again, quoted_out, name_mappings,
                   link_anonymization, link_level, pc>>
    /\ UNCHANGED docVars
    /\ UNCHANGED pagingVars

NextText == RewriteQuoted \/ RewriteMain

SpecText == InitText /\ [][NextText]_vars

----------------------------------------------------------------------------
(* apply_anonymization as a function of a document and a mapping table     *)

InitAnon ==
    /\ data \in Documents
    /\ name_mappings \in DocTables
    /\ \E s \in LinkSettings : link_anonymization = s.enabled /\ link_level = s.level
    /\ custom_mappings = <<>> /\ anonymization_mode = "none"
    /\ display_data = NotRun /\ reported = {}
    /\ NoText
    /\ NoFlow
    /\ NoPaging
    /\ pc = "call"

\* display_data = apply_anonymization(data, name_mappings)
AnonymizeCall ==
    /\ pc = "call"
    /\ LET r == apply_anonymization(data, name_mappings, link_anonymization, link_level)
       IN  /\ data' = r.original
           /\ display_data' = Done(r.returned)
           /\ reported' = IF r.error THEN reported \cup {"anonymization"} ELSE reported
    /\ pc' = "returned"
    /\ UNCHANGED <<custom_mappings, anonymization_mode, name_mappings,
                   link_anonymization, link_level>>
    /\ UNCHANGED textVars
    /\ UNCHANGED flowVars
    /\ UNCHANGED pagingVars

NextAnon == AnonymizeCall

SpecAnon == InitAnon /\ [][NextAnon]_vars

----------------------------------------------------------------------------
(* apply_anonymization called twice on one document and one mapping table  *)

\* _render_mode_selection between the calls: the checkbox and the level the user
\* has set are stored in the session
RenderModeSelection ==
    /\ pc = "returned"
    /\ \E s \in LinkSettings : link_anonymization' = s.enabled /\ link_level' = s.level
    /\ pc' = "rerun"
    /\ UNCHANGED <<name_mappings>>
    /\ UNCHANGED textVars
    /\ UNCHANGED docVars
    /\ UNCHANGED pagingVars

\* apply_anonymization(data, name_mappings) once more
AnonymizeAgain ==
    /\ pc = "rerun"
    /\ LET r == apply_anonymization(data, name_mappings, link_anonymization, link_level)
       IN  /\ data' = r.original
           /\ display_again' = Done(r.returned)
           /\ reported' = IF r.error THEN reported \cup {"anonymization"} ELSE reported
    /\ pc' = "returned again"
    /\ UNCHANGED <<custom_mappings, anonymization_mode, name_mappings,
                   link_anonymization, link_level, display_data>>
    /\ UNCHANGED textVars
    /\ UNCHANGED <<parsed_messages, page_messages, stats, file_json, save_option,
                   saved>>
    /\ UNCHANGED pagingVars

NextTwice == AnonymizeCall \/ RenderModeSelection \/ AnonymizeAgain

SpecTwice == InitAnon /\ [][NextTwice]_vars

----------------------------------------------------------------------------
(* create_anonymization_mappings as a function of its three arguments      *)

InitBuilder ==
    /\ data \in Documents
    /\ custom_mappings \in DocTables
    /\ anonymization_mode \in Modes
    /\ name_mappings = <<>>
    /\ link_anonymization = TRUE /\ link_level = "domain"
    /\ display_data = NotRun /\ reported = {}
    /\ NoText
    /\ NoFlow
    /\ NoPaging
    /\ pc = "call"

\* name_mappings = create_anonymization_mappings(data, custom_mappings, mode); a
\* ValueError leaves the function and nothing is assigned
BuilderCall ==
    /\ pc = "call"
    /\ LET r == create_anonymization_mappings(data, custom_mappings, anonymization_mode)
       IN  /\ name_mappings' = r.mappings
           /\ reported' = IF r.error THEN reported \cup {"mappings"} ELSE reported
           /\ pc' = IF r.raised THEN "raised" ELSE "returned"
    /\ UNCHANGED <<data, custom_mappings, anonymization_mode, link_anonymization,
                   link_level, display_data>>
    /\ UNCHANGED textVars
    /\ UNCHANGED flowVars
    /\ UNCHANGED pagingVars

NextBuilder == BuilderCall

SpecBuilder == InitBuilder /\ [][NextBuilder]_vars

----------------------------------------------------------------------------
(* The normalizer and the statistics on the documents they are made for    *)

InitNormalize ==
    /\ data \in DatedDocuments
    /\ name_mappings \in DocTables
    /\ custom_mappings = <<>> /\ anonymization_mode = "none"
    /\ link_anonymization = TRUE /\ link_level = "domain"
    /\ display_data = NotRun /\ reported = {}
    /\ NoText
    /\ NoFlow
    /\ NoPaging
    /\ pc = "call"

\* _display_processed_messages(data, name_mappings): parse, sort, show a page
DisplayCall ==
    /\ pc = "call"
    /\ \E nows \in Clocks(Len(data)) :
          parsed_messages' = Done(ParsedMessages(data, name_mappings, nows))
    /\ \E shown \in Pages(parsed_messages'.v) :
          /\ page' = shown
          /\ page_messages' = Done(ShownPage(parsed_messages'.v, shown))
    /\ pc' = "displayed"
    /\ UNCHANGED <<data, custom_mappings, anonymization_mode, name_mappings,
                   link_anonymization, link_level, display_data, reported, stats,
                   file_json, save_option, saved, display_again>>
    /\ UNCHANGED textVars
    /\ UNCHANGED messages_per_page

\* create_message_statistics(parsed_messages)
StatisticsCall ==
    /\ pc = "displayed"
    /\ LET r == create_message_statistics(ListOf(parsed_messages.v))
       IN  /\ stats' = Done(r)
           /\ reported' = IF r.error THEN reported \cup {"statistics"} ELSE reported
    /\ pc' = "aggregated"
    /\ UNCHANGED <<data, custom_mappings, anonymization_mode, name_mappings,
                   link_anonymization, link_level, display_data, parsed_messages,
                   page_messages, file_json, save_option, saved, display_again>>
    /\ UNCHANGED textVars
    /\ UNCHANGED pagingVars

NextNormalize == DisplayCall \/ StatisticsCall

SpecNormalize == InitNormalize /\ [][NextNormalize]_vars

----------------------------------------------------------------------------
(* The workflow of _process_chat_data with anonymization enabled           *)

Init ==
    /\ data \in Documents
    /\ custom_mappings \in DocTables
    /\ \E s \in LinkSettings : link_anonymization = s.enabled /\ link_level = s.level
    /\ anonymization_mode = "none"
    /\ name_mappings = <<>>
    /\ display_data = NotRun /\ reported = {}
    /\ NoText
    /\ NoFlow
    /\ NoPaging
    /\ pc = "loaded"

\* name_mappings = create_anonymization_mappings(data, custom_mappings, mode), the
\* mode being the one the radio button gave
CreateMappings ==
    /\ pc = "loaded"
    /\ \E mode \in SupportedModes :
          LET r == create_anonymization_mappings(data, custom_mappings, mode)
          IN  /\ anonymization_mode' = mode
              /\ name_mappings' = r.mappings
              /\ reported' = IF r.error THEN reported \cup {"mappings"} ELSE reported
              /\ pc' = IF r.raised THEN "crashed" ELSE "mapped"
    /\ UNCHANGED <<data, custom_mappings, link_anonymization, link_level, display_data>>
    /\ UNCHANGED textVars
    /\ UNCHANGED flowVars
    /\ UNCHANGED pagingVars

\* "stats = create_message_statistics(data)": the argument is the document, a
\* dict whose one key is 'messages'
GenerateStatistics ==
    /\ pc = "mapped"
    /\ LET r == create_message_statistics(DictOf(<<"messages">>))
       IN  /\ stats' = Done(r)
           /\ reported' = IF r.error THEN reported \cup {"statistics"} ELSE reported
    /\ pc' = "counted"
    /\ UNCHANGED <<data, custom_mappings, anonymization_mode, name_mappings,
                   link_anonymization, link_level, display_data, parsed_messages,
                   page_messages, file_json, save_option, saved, display_again>>
    /\ UNCHANGED textVars
    /\ UNCHANGED pagingVars

\* "if should_anonymize and name_mappings: display_data = apply_anonymization(...)"
ApplyAnonymization ==
    /\ pc = "counted" /\ name_mappings # <<>>
    /\ LET r == apply_anonymization(data, name_mappings, link_anonymization, link_level)
       IN  /\ data' = r.original
           /\ display_data' = Done(r.returned)
           /\ reported' = IF r.error THEN reported \cup {"anonymization"} ELSE reported
    /\ pc' = "anonymized"
    /\ UNCHANGED <<custom_mappings, anonymization_mode, name_mappings,
                   link_anonymization, link_level>>
    /\ UNCHANGED textVars
    /\ UNCHANGED flowVars
    /\ UNCHANGED pagingVars

\* no mapping: "display_data = data"
SkipAnonymization ==
    /\ pc = "counted" /\ name_mappings = <<>>
    /\ display_data' = Done(data)
    /\ pc' = "anonymized"
    /\ UNCHANGED <<data, custom_mappings, anonymization_mode, name_mappings,
                   link_anonymization, link_level, reported>>
    /\ UNCHANGED textVars
    /\ UNCHANGED flowVars
    /\ UNCHANGED pagingVars

\* "if save_option != "Don't save (view only)": save_anonymized_data(display_data,
\* ...)", inside "if should_anonymize and name_mappings"
SaveAnonymized ==
    /\ pc = "anonymized" /\ name_mappings # <<>>
    /\ \E option \in SaveOptions, writable \in BOOLEAN :
          LET r == save_anonymized_data(display_data.v, file_name, option, writable)
          IN  /\ save_option' = option
              /\ saved' = r.saved
              /\ reported' = IF r.error THEN reported \cup {"save"} ELSE reported
    /\ pc' = "saved"
    /\ UNCHANGED <<data, custom_mappings, anonymization_mode, name_mappings,
                   link_anonymization, link_level, display_data, parsed_messages,
                   page_messages, stats, file_json, display_again>>
    /\ UNCHANGED textVars
    /\ UNCHANGED pagingVars

\* _display_processed_messages(display_data, name_mappings)
DisplayMessages ==
    /\ pc = "saved" \/ (pc = "anonymized" /\ name_mappings = <<>>)
    /\ \E nows \in Clocks(Len(display_data.v)) :
          parsed_messages' = Done(ParsedMessages(display_data.v, name_mappings, nows))
    /\ \E shown \in Pages(parsed_messages'.v) :
          /\ page' = shown
          /\ page_messages' = Done(ShownPage(parsed_messages'.v, shown))
    /\ pc' = "displayed"
    /\ UNCHANGED <<data, custom_mappings, anonymization_mode, name_mappings,
                   link_anonymization, link_level, display_data, reported, stats,
                   file_json, save_option, saved, display_again>>
    /\ UNCHANGED textVars
    /\ UNCHANGED messages_per_page

Next ==
    \/ CreateMappings
    \/ GenerateStatistics
    \/ ApplyAnonymization
    \/ SkipAnonymization
    \/ SaveAnonymized
    \/ DisplayMessages

Spec == Init /\ [][Next]_vars

----------------------------------------------------------------------------
(* main: a file is selected, loaded and validated, then processed          *)

InitMain ==
    /\ file_json \in Files
    /\ data = <<>>
    /\ custom_mappings \in DocTables
    /\ \E s \in LinkSettings : link_anonymization = s.enabled /\ link_level = s.level
    /\ anonymization_mode = "none"
    /\ name_mappings = <<>>
    /\ display_data = NotRun /\ reported = {}
    /\ NoText
    /\ parsed_messages = NotRun /\ page_messages = NotRun /\ stats = NotRun
    /\ save_option = "none" /\ saved = NotRun /\ display_again = NotRun
    /\ NoPaging
    /\ pc = "selected"

\* "data = _load_and_validate_chat_data(selected_file, display_name); if not data:
\* return"
LoadAndValidate ==
    /\ pc = "selected"
    /\ LET r == load_and_validate_chat_data(file_json)
       IN  /\ data' = r.data
           /\ reported' = IF r.none THEN reported \cup {r.report} ELSE reported
           /\ pc' = IF r.none THEN "rejected" ELSE "loaded"
    /\ UNCHANGED <<custom_mappings, anonymization_mode, name_mappings,
                   link_anonymization, link_level, display_data>>
    /\ UNCHANGED textVars
    /\ UNCHANGED flowVars
    /\ UNCHANGED pagingVars

NextMain == LoadAndValidate \/ Next

SpecMain == InitMain /\ [][NextMain]_vars

----------------------------------------------------------------------------
(* The session's custom mapping list under the buttons of src/ui.py        *)

\* initialize_mapping_session_state: the list starts empty
InitSession ==
    /\ NoText
    /\ NoDocument
    /\ name_mappings = <<>>
    /\ link_anonymization = TRUE /\ link_level = "domain"
    /\ NoPaging
    /\ pc = "session"

\* what a handler leaves in the session; the rerun behind it renders the mode
\* selection, which hands get_custom_mappings_from_session() on
SessionStep(r) ==
    /\ custom_mappings' = r.custom_mappings
    /\ reported' = r.report
    /\ name_mappings' = get_custom_mappings_from_session(r.custom_mappings)
    /\ UNCHANGED <<data, anonymization_mode, link_anonymization,
                   link_level, display_data, pc>>
    /\ UNCHANGED textVars
    /\ UNCHANGED flowVars
    /\ UNCHANGED pagingVars

\* the "Add" button of render_add_mapping_interface
HandleAddMapping ==
    /\ pc = "session" /\ Len(custom_mappings) < MaxMappings
    /\ \E original \in TypedOriginals, replacement \in TypedReplacements :
          SessionStep(handle_add_mapping(custom_mappings, original, replacement))

\* the "Add" button of the quick anonymization form
QuickAdd ==
    /\ pc = "session"
    /\ \E option \in ParticipantOptions, replacement_name \in TypedReplacements,
          replacement_email \in TypedEmails :
          LET r == quick_add(custom_mappings, option, replacement_name, replacement_email)
          IN  /\ Len(r.custom_mappings) <= MaxMappings
              /\ SessionStep(r)

\* a delete button of render_existing_mappings or of the quick form
DeleteMapping ==
    /\ pc = "session"
    /\ \E i \in 1..Len(custom_mappings) :
          SessionStep(SessionResult(PopMapping(custom_mappings, i), {}))

\* "Clear All Mappings", shown for more than one mapping
ClearAll ==
    /\ pc = "session" /\ Len(custom_mappings) > 1
    /\ SessionStep(SessionResult(<<>>, {}))

NextSession == HandleAddMapping \/ QuickAdd \/ DeleteMapping \/ ClearAll

SpecSession == InitSession /\ [][NextSession]_vars

----------------------------------------------------------------------------
(* The pages of the transcript under the page size of the session          *)

InitPages ==
    /\ data \in PagedDocuments
    /\ messages_per_page \in PageSizes
    /\ page = 1
    /\ name_mappings = <<>>
    /\ custom_mappings = <<>> /\ anonymization_mode = "none"
    /\ link_anonymization = TRUE /\ link_level = "domain"
    /\ display_data = NotRun /\ reported = {}
    /\ NoText
    /\ NoFlow
    /\ pc = "call"

\* display_processed_messages(data, name_mappings) of src/ui.py, at the first run
\* and at each rerun the page input causes: parse, sort, show the page.  The
\* clock is the same for all messages here; no message of these documents reads it.
DisplayProcessedMessages ==
    /\ pc \in {"call", "displayed"}
    /\ \E now \in Clock :
          parsed_messages' =
              Done(ParsedMessages(data, name_mappings, [i \in 1..Len(data) |-> now]))
    /\ IF parsed_messages'.v = <<>>
       THEN page' = page /\ page_messages' = Done(<<>>)
       ELSE \E sorted_messages \in {SortedByTimestamp(parsed_messages'.v)} :
            \E shown \in 1..TotalPagesOf(sorted_messages, messages_per_page) :
               /\ page' = shown
               /\ page_messages' =
                      Done(PageMessagesOf(sorted_messages, shown, messages_per_page))
    /\ pc' = "displayed"
    /\ UNCHANGED <<data, custom_mappings, anonymization_mode, name_mappings,
                   link_anonymization, link_level, display_data, reported, stats,
                   file_json, save_option, saved, display_again, messages_per_page>>
    /\ UNCHANGED textVars

NextPages == DisplayProcessedMessages

SpecPages == InitPages /\ [][NextPages]_vars

----------------------------------------------------------------------------
(* Properties of the link classifier (SpecLinks)                           *)

\* the positions at which needle occurs in text
OccurrencesOf(needle, text_) ==
    {i \in 1..(Len(text_) - Len(needle) + 1) :
        SubSeq(text_, i, i + Len(needle) - 1) = needle}

\* the positions at which a maximal run of non-whitespace characters starts
TokenStarts(s) ==
    {i \in 1..Len(s) : s[i] \notin Whitespace /\ (i = 1 \/ s[i - 1] \in Whitespace)}

\* the maximal runs of non-whitespace characters of s, from left to right
Tokens(s) ==
    LET starts == TokenStarts(s)
        nth(n) == CHOOSE i \in starts : Cardinality({j \in starts : j < i}) = n - 1
    IN  [n \in 1..Cardinality(starts) |->
            SubSeq(s, nth(n), nth(n) + RunLen(NonSpace, s, nth(n), -1) - 1)]

\* the entries of a pattern table that match at the first character of a token
MatchingAtStart(table, token) ==
    {k \in 1..Len(table) : Ends(table[k].re, 1, token, 1) # {}}

\* the tag of a Google Docs URL
docs_tag == <<"[", "D", "O", "C", "S", "_", "L", "I", "N", "K", "]">>

\* C6: at the domain level the service patterns are applied before the generic
\* https and http catch-alls: a URL (a run of non-whitespace characters) at whose
\* start a service pattern matches gets the tag of the first such pattern of the
\* table, never the tag of a catch-all; a Docs URL gets [DOCS_LINK].
C6_ServiceBeforeCatchAll ==
    (link_out.done /\ link_level = "domain") =>
        LET before == Tokens(text)
            after == Tokens(link_out.v)
        IN  /\ Len(after) = Len(before)
            /\ \A n \in 1..Len(before) :
                  LET hits == MatchingAtStart(specific_patterns, before[n]) IN
                  hits # {} =>
                      /\ after[n] = specific_patterns[Min(hits)].tag
                      /\ \A k \in 1..Len(catch_all_patterns) :
                            after[n] # catch_all_patterns[k].tag
                      /\ specific_patterns[Min(hits)].name = "google_docs"
                            => after[n] = docs_tag

\* a text with a Docs URL, which also the https catch-all and the pattern of
\* the other Google services match, has been classified as [DOCS_LINK]
C6_DocsUrlClassified ==
    /\ link_out.done /\ link_level = "domain"
    /\ \E n \in 1..Len(Tokens(text)) :
          /\ Ends(specific_patterns[1].re, 1, Tokens(text)[n], 1) # {}
          /\ Ends(catch_all_patterns[1].re, 1, Tokens(text)[n], 1) # {}
          /\ Cardinality(MatchingAtStart(specific_patterns, Tokens(text)[n])) > 1
          /\ Tokens(link_out.v)[n] = docs_tag

\* the characters of a text
CharsOf(s) == {s[i] : i \in 1..Len(s)}

\* the start of an http URL
http_prefix == <<"h", "t", "t", "p", ":", "/", "/">>
\* the start of an https URL
https_prefix == <<"h", "t", "t", "p", "s", ":", "/", "/">>

\* no http(s) URL and no email address in the text
NoUrlNoEmail ==
    /\ OccurrencesOf(http_prefix, Lower(text)) = {}
    /\ OccurrencesOf(https_prefix, Lower(text)) = {}
    /\ "@" \notin CharsOf(text)

\* no file path in the text: no "/" (so no "file://" either) and no drive
\* letter followed by ":\"
NoPath ==
    /\ "/" \notin CharsOf(text)
    /\ \A i \in 1..(Len(text) - 2) :
          ~(text[i] \in Letters /\ text[i + 1] = ":" /\ text[i + 2] = "\\")

\* C7 as the spec has it: at the full level a text with no http(s) URL and no
\* email address comes back identical.
C7_FullLevelOnlyUrlsAndEmails ==
    (link_out.done /\ link_level = "full" /\ NoUrlNoEmail) => link_out.v = text

\* C7, amended: at the full level a text with no http(s) URL, no email address
\* and no file path ("file://", a drive letter followed by ":\", or a "/")
\* comes back identical.
C7_FullLevelNothingToRedact ==
    (link_out.done /\ link_level = "full" /\ NoUrlNoEmail /\ NoPath)
        => link_out.v = text

\* a text with a network path, which only the domain level redacts, has come
\* back from the full level as it went in
C7_NetworkPathKept ==
    /\ link_out.done /\ link_level = "full" /\ NoUrlNoEmail /\ NoPath
    /\ OccurrencesOf(unc_path, text) # {}
    /\ link_out.v = text

\* C8: the classification of the domain level is idempotent, classifying its
\* output again changes nothing; no pattern of the table matches a tag the
\* output holds.
C8_DomainIdempotent ==
    (link_again.done /\ link_level = "domain") =>
        /\ link_again.v = link_out.v
        /\ \A k \in 1..Len(link_patterns) :
              OccurrencesOf(link_patterns[k].tag, link_out.v) # {} =>
                  \A q \in 1..Len(link_patterns) :
                      ~Search(link_patterns[q].re, link_patterns[k].tag)

\* a text with two URLs has been classified twice at the domain level: the
\* first pass replaced both, the second found nothing
C8_TwoUrlsClassifiedTwice ==
    /\ link_again.done /\ link_level = "domain"
    /\ Len(Tokens(text)) = 2
    /\ \A n \in 1..2 : Tokens(link_out.v)[n] # Tokens(text)[n]
    /\ link_again.v = link_out.v

----------------------------------------------------------------------------
(* Properties of the text rewriting (SpecText)                             *)

table_john == <<Entry(k_john, r_p1), Entry(k_john_smith, r_p2)>>

table_email == <<Entry(k_email, r_email)>>

table_alice == <<Entry(k_alice, r_person1), Entry(k_alice_email, r_person1_email)>>

\* what the shorter key would leave of "John Smith"
p1_smith ==
    <<"P", "1", " ", "S", "m", "i", "t", "h">>

\* C2: the entries are applied in decreasing order of key length, so that with
\* {"John": "P1", "John Smith": "P2"} an occurrence of "John Smith" is replaced
\* by "P2" and never left as "P1 Smith"; "John Smith said hi" becomes
\* "P2 said hi".
C2_LongestKeyFirst ==
    (main_out.done /\ name_mappings = table_john) =>
        /\ OccurrencesOf(Lower(k_john_smith), Lower(main_out.v)) = {}
        /\ OccurrencesOf(p1_smith, main_out.v) = {}
        /\ ~link_anonymization =>
              Cardinality(OccurrencesOf(r_p2, main_out.v))
                  = Cardinality(OccurrencesOf(Lower(k_john_smith), Lower(text)))
        /\ text = txt_john_smith \o txt_said_hi => main_out.v = r_p2 \o txt_said_hi

\* "John Smith said hi" has been rewritten with the two keys
C2_JohnSmithRewritten ==
    /\ main_out.done /\ name_mappings = table_john
    /\ text = txt_john_smith \o txt_said_hi
    /\ main_out.v = r_p2 \o txt_said_hi

\* C3: for every key that contains "@", every case-insensitive occurrence of the
\* key in the main text is replaced, also one that touches a letter or a digit:
\* no occurrence of the key is left in the rewritten text.
C3_EmailKeyAnywhere ==
    main_out.done =>
        \A i \in 1..Len(name_mappings) :
            "@" \in {name_mappings[i].original[j] :
                        j \in 1..Len(name_mappings[i].original)}
                => OccurrencesOf(Lower(name_mappings[i].original), Lower(main_out.v)) = {}

\* the scenario text rewritten at the domain level
scenario_domain ==
    <<"E", "m", "a", "i", "l", " ", "m", "e", " ", "a", "t", " ", "p", "e", "r", "s",
      "o", "n", "1", "@", "e", "x", "a", "m", "p", "l", "e", ".", "c", "o", "m", " ",
      "o", "r", " ", "v", "i", "s", "i", "t", " ", "[", "G", "I", "T", "H", "U", "B",
      "_", "L", "I", "N", "K", "]">>

\* the scenario text rewritten at the full level
scenario_full ==
    <<"E", "m", "a", "i", "l", " ", "m", "e", " ", "a", "t", " ", "[", "E", "M", "A",
      "I", "L", "]", " ", "o", "r", " ", "v", "i", "s", "i", "t", " ", "[", "L", "I",
      "N", "K", "]">>

\* C4: in main and quoted text the mapping substitutions are applied before the
\* link classifier, so a replacement that looks like an email or a URL is
\* classified as well: the scenario text with {"Alice": "Person1", "alice@x.com":
\* "person1@example.com"} becomes "Email me at person1@example.com or visit
\* [GITHUB_LINK]" at the domain level and "Email me at [EMAIL] or visit [LINK]"
\* at the full level.
C4_MappingsBeforeLinks ==
    /\ (main_out.done /\ link_anonymization) =>
          main_out.v = anonymize_all_links(
                           RewriteMainText(text, name_mappings, FALSE, link_level),
                           link_level)
    /\ (quoted_out.done /\ link_anonymization) =>
          quoted_out.v = anonymize_all_links(
                             RewriteQuotedText(text, name_mappings, FALSE, link_level),
                             link_level)
    /\ (main_out.done /\ link_anonymization /\ text = txt_scenario
           /\ name_mappings = table_alice) =>
          LET expected == IF link_level = "full" THEN scenario_full ELSE scenario_domain
          IN  main_out.v = expected /\ quoted_out.v = expected

\* the scenario text has been rewritten at the full level: the replacement
\* address itself became [EMAIL]
C4_ScenarioAtFullLevel ==
    /\ main_out.done /\ link_anonymization /\ link_level = "full"
    /\ text = txt_scenario /\ name_mappings = table_alice
    /\ main_out.v = scenario_full /\ quoted_out.v = scenario_full

\* no key of the table occurs in the text, whatever the case of the letters
NoKeyOccurs ==
    \A i \in 1..Len(name_mappings) :
        OccurrencesOf(Lower(name_mappings[i].original), Lower(text)) = {}

\* C5: for a text in which no key of the table occurs (case-insensitively) the
\* rewriter returns anonymize_all_links of the text at the current level; in
\* particular for the empty table.
C5_NoKeyOnlyLinks ==
    (link_anonymization /\ NoKeyOccurs) =>
        /\ main_out.done => main_out.v = anonymize_all_links(text, link_level)
        /\ quoted_out.done => quoted_out.v = anonymize_all_links(text, link_level)

\* a text with a link and none of the keys of a non-empty table has been
\* rewritten: only the link changed
C5_OnlyLinksChanged ==
    /\ main_out.done /\ link_anonymization /\ NoKeyOccurs
    /\ name_mappings # <<>>
    /\ main_out.v # text

----------------------------------------------------------------------------
(* Properties of apply_anonymization on a document (SpecAnon)              *)

\* C1: a call of apply_anonymization(D, M) leaves the caller's document D equal
\* to its value before the call, whether the walk changes the copy or fails;
\* and when it fails the returned document is D itself.
C1_OriginalUntouched ==
    [][(pc = "call" /\ pc' = "returned")
          => /\ data' = data
             /\ ("anonymization" \in reported' => display_data'.v = data)]_vars

\* a call has returned a document that differs from the caller's one
C1_RewrittenCopy ==
    /\ pc = "returned"
    /\ "anonymization" \notin reported
    /\ display_data.done /\ display_data.v # data

\* the walk of apply_anonymization raises on message i of document doc
FailsOn(doc, i, mappings) ==
    WalkMessage(doc[i], mappings, link_anonymization, link_level).raised

MappedOrKept(email, mappings) ==
    IF HasKey(mappings, email) THEN Lookup(mappings, email) ELSE email

\* C9: after apply_anonymization(D, M) every creator email, quoted creator email
\* and reactor_emails entry that is a key of M holds M's replacement, the other
\* addresses are unchanged, and the reactor lists keep their length and order.
C9_EmailsReplaced ==
    (pc = "returned" /\ "anonymization" \notin reported) =>
        /\ Len(display_data.v) = Len(data)
        /\ \A i \in 1..Len(data) :
              LET before == data[i]
                  after == display_data.v[i]
              IN  /\ (before.creator.has /\ before.creator.email.k = "str") =>
                        after.creator.email =
                            Str(MappedOrKept(before.creator.email.v, name_mappings))
                  /\ (before.quoted.has /\ before.quoted.creator_email.k = "str") =>
                        after.quoted.creator_email =
                            Str(MappedOrKept(before.quoted.creator_email.v, name_mappings))
                  /\ Len(after.reactions) = Len(before.reactions)
                  /\ \A j \in 1..Len(before.reactions) :
                        /\ after.reactions[j].k = before.reactions[j].k
                        /\ Len(after.reactions[j].v) = Len(before.reactions[j].v)
                        /\ \A k \in 1..Len(before.reactions[j].v) :
                              after.reactions[j].v[k] =
                                  MappedOrKept(before.reactions[j].v[k], name_mappings)

----------------------------------------------------------------------------
(* Properties of create_anonymization_mappings in the workflow (Spec)      *)

\* the items of a dict, whatever their order
Items(mappings) == {mappings[i] : i \in 1..Len(mappings)}

\* C10: in manual mode create_anonymization_mappings returns exactly the custom
\* mapping the caller supplied, whether or not its originals occur as sender
\* names or as email addresses in the document.
C10_ManualReturnsCustom ==
    (pc \in {"mapped", "anonymized"} /\ anonymization_mode = "manual"
        /\ "mappings" \notin reported)
        => Items(name_mappings) = Items(custom_mappings)

----------------------------------------------------------------------------
(* Properties of create_anonymization_mappings as a function (SpecBuilder) *)

\* C11: a call of create_anonymization_mappings with a mode that is not supported
\* does not fail: no exception reaches the caller, and it returns the mapping
\* table manual mode gives for the same document and custom mappings.
C11_UnsupportedModeFallsBack ==
    (pc # "call" /\ anonymization_mode \notin SupportedModes) =>
        /\ pc = "returned"
        /\ name_mappings =
              create_anonymization_mappings(data, custom_mappings, "manual").mappings

----------------------------------------------------------------------------
(* Properties of the normalizer and the statistics (SpecNormalize)         *)

\* the messages of a document that have creator.name
Named(doc) ==
    {i \in 1..Len(doc) : doc[i].creator.has /\ doc[i].creator.name.k # "absent"}

\* the elements of a list
Elements(list) == {list[i] : i \in 1..Len(list)}

\* the normalized list is made of messages Named(doc) holds, in their order: each
\* entry is what parse_chat_message returns for one of them
FromNamedMessages(parsed, doc, mappings) ==
    \E f \in [1..Len(parsed) -> Named(doc)] :
        /\ \A k, l \in 1..Len(parsed) : k < l => f[k] < f[l]
        /\ \A k \in 1..Len(parsed) :
              \E now \in Clock :
                  LET r == parse_chat_message(doc[f[k]], mappings, now)
                  IN  ~r.none /\ r.v = parsed[k]

HasValidDate(message) ==
    /\ message.created_date.k = "str"
    /\ ParseTimestamp(message.created_date, NoDateTime).timestamp # NoDateTime

\* C14: every message with creator.name is returned by the normalizer, whatever
\* its created_date is; when the date is missing, in another format or not a
\* string, its timestamp is the wall-clock time.
C14_DateFailureFallsBackToNow ==
    parsed_messages.done =>
        /\ Len(parsed_messages.v) = Cardinality(Named(data))
        /\ \A i \in Named(data) :
              ~HasValidDate(data[i]) =>
                  \E p \in Elements(parsed_messages.v) :
                      /\ p.original_name = data[i].creator.name
                      /\ p.timestamp \in Clock

\* C15: for a non-empty list of normalized messages create_message_statistics
\* returns counts with sum(message_counts.values()) = total_messages =
\* len(messages), and the daily and the original counts sum to the same number.
C15_CountsSumToTotal ==
    (stats.done /\ parsed_messages.v # <<>>) =>
        /\ ~stats.v.error /\ ~stats.v.empty
        /\ stats.v.v.total_messages = Len(parsed_messages.v)
        /\ SumOfCounts(stats.v.v.message_counts) = Len(parsed_messages.v)
        /\ SumOfCounts(stats.v.v.daily_counts) = Len(parsed_messages.v)
        /\ SumOfCounts(stats.v.v.original_counts) = Len(parsed_messages.v)

\* two messages of one sender on one day have been counted
C15_TwoMessagesOneSender ==
    /\ pc = "aggregated"
    /\ Len(parsed_messages.v) = 2
    /\ parsed_messages.v[1].name = parsed_messages.v[2].name
    /\ Len(stats.v.v.message_counts) = 1
    /\ Len(stats.v.v.daily_counts) = 1
    /\ stats.v.v.total_messages = 2


----------------------------------------------------------------------------
(* Properties of main (SpecMain)                                           *)

\* the shapes the validation refuses: a JSON value that is not an object, an
\* object without 'messages', one whose 'messages' is not a list, one whose
\* 'messages' is the empty list
RefusedShape(file) ==
    \/ file.kind = "other"
    \/ file.kind = "dict" /\ file.messages.k # "list"
    \/ file.kind = "dict" /\ file.messages.k = "list" /\ file.messages.v = <<>>

\* C16: once a file of a refused shape has been loaded, the run has ended in the
\* validation: one failure was reported, no document was returned, and there is
\* no mapping table, no statistics, no normalized message, no page, no
\* anonymized document and no output file.
C16_RefusedFileProducesNothing ==
    (RefusedShape(file_json) /\ pc # "selected") =>
        /\ pc = "rejected"
        /\ reported = {load_and_validate_chat_data(file_json).report}
        /\ reported \subseteq {"not an object", "no messages field",
                               "messages not a list", "no messages found"}
        /\ data = <<>>
        /\ name_mappings = <<>> /\ anonymization_mode = "none"
        /\ stats = NotRun /\ parsed_messages = NotRun /\ page_messages = NotRun
        /\ display_data = NotRun /\ saved = NotRun

\* a file whose 'messages' is the empty list has been refused, with custom
\* mappings waiting in the session
C16_EmptyListRefused ==
    /\ file_json = JsonFile("dict", ListValue(<<>>))
    /\ custom_mappings # <<>>
    /\ pc = "rejected"
    /\ reported = {"no messages found"}


----------------------------------------------------------------------------
(* Properties of the workflow with the save and the display (Spec)         *)

\* whether the texts of the messages of document are those of the messages of
\* original with their links replaced (texts that are not strings aside)
LinksReplaced(original, document, level) ==
    /\ Len(document) = Len(original)
    /\ \A i \in 1..Len(original) :
          original[i].text.k = "str" =>
              document[i].text = Str(anonymize_all_links(original[i].text.v, level))

\* C17: in manual mode with link anonymization switched on and an empty mapping
\* table, the texts of the displayed document, and of the saved one if there is
\* one, have their links replaced by link tags.
C17_LinksReplacedWithoutMappings ==
    (/\ pc \in {"anonymized", "saved", "displayed"}
     /\ anonymization_mode = "manual"
     /\ link_anonymization
     /\ name_mappings = <<>>) =>
        /\ LinksReplaced(data, display_data.v, link_level)
        /\ saved.done => LinksReplaced(data, saved.v.document, link_level)


\* whether every creator name of original that is a key of table stands
\* replaced in document
CreatorNamesReplaced(original, document, table) ==
    /\ Len(document) = Len(original)
    /\ \A i \in 1..Len(original) :
          (/\ original[i].creator.has
           /\ original[i].creator.name.k = "str"
           /\ HasKey(table, original[i].creator.name.v)) =>
              document[i].creator.name =
                  Str(Lookup(table, original[i].creator.name.v))

\* C19: the document written to the file or offered for download under the
\* "_anonymized" name has every creator name that is a key of the mapping table
\* replaced; it is never the document as it was loaded.
C19_SavedDocumentIsAnonymized ==
    saved.done =>
        /\ saved.v.file_name = AnonymizedFilename(file_name)
        /\ CreatorNamesReplaced(data, saved.v.document, name_mappings)


----------------------------------------------------------------------------
(* Properties of two apply_anonymization calls (SpecTwice)                 *)

\* C20: a second call of apply_anonymization on the same document and the same
\* mapping table returns a document equal to the one the first call returned,
\* whatever link settings the session holds at each call.
C20_ResultIndependentOfLinkSettings ==
    display_again.done =>
        /\ display_data.done
        /\ display_again.v = display_data.v


----------------------------------------------------------------------------
(* Properties of the session's mapping list (SpecSession)                  *)

\* C18: whatever adds, quick-adds, deletes and clears came before, the custom
\* mapping list of the session holds at most one entry per original string.
C18_OneEntryPerOriginal ==
    \A i, j \in 1..Len(custom_mappings) :
        custom_mappings[i].original = custom_mappings[j].original => i = j


----------------------------------------------------------------------------
(* The two rewriters on one text (SpecText)                                *)

\* C21: a text rewritten as a quoted text equals the same text rewritten as a
\* main message text, for the same mapping table and link settings.
C21_QuotedEqualsMain ==
    (quoted_out.done /\ main_out.done) => quoted_out.v = main_out.v


\* a key made of word characters only: a name in one word
WordOnlyKey(key) == key # <<>> /\ \A i \in 1..Len(key) : key[i] \in WordChars

\* t from position i on, a word starting at i, with every whole word that reads
\* key (letters compared without case) replaced; every other character kept
RECURSIVE WholeWords(_, _, _, _)
WholeWords(t, key, replacement, i) ==
    IF i > Len(t) THEN <<>>
    ELSE IF t[i] \in WordChars
    THEN LET n == RunLen(In(WordChars), t, i, -1)
         IN  (IF Lower(SubSeq(t, i, i + n - 1)) = Lower(key)
              THEN replacement
              ELSE SubSeq(t, i, i + n - 1))
                 \o WholeWords(t, key, replacement, i + n)
    ELSE <<t[i]>> \o WholeWords(t, key, replacement, i + 1)

\* the same for the entries of a sorted table, one after the other from entry k
RECURSIVE WholeWordsOf(_, _, _)
WholeWordsOf(t, sorted, k) ==
    IF k > Len(sorted) THEN t
    ELSE WholeWordsOf(WholeWords(t, sorted[k].original, sorted[k].replacement, 1),
                      sorted, k + 1)

also_bo == <<"A", "l", "s", "o", " ", "B", "o", ".">>

----------------------------------------------------------------------------
(* The statistics of the workflow (SpecMain)                               *)

\* C23: the statistics are computed after the messages are normalized and from
\* the normalized list: once the transcript is displayed, the statistics are
\* there and their total_messages is the number of normalized messages.
C23_StatisticsOfNormalizedMessages ==
    /\ stats.done => parsed_messages.done
    /\ (pc = "displayed" /\ parsed_messages.v # <<>>) =>
          /\ stats.done
          /\ ~stats.v.empty
          /\ stats.v.v.total_messages = Len(parsed_messages.v)


----------------------------------------------------------------------------
(* The lookup tables of the statistics (SpecNormalize)                     *)

\* the first of the normalized messages of original name original whose display
\* name differs from it, 0 when there is none
FirstDivergent(messages, original) ==
    LET at == {i \in 1..Len(messages) :
                  messages[i].original_name = original /\ messages[i].name # original}
    IN  IF at = {} THEN 0 ELSE Min(at)

\* C25: the statistics of a non-empty normalized list hold the tables
\* name_to_email and display_to_original, keyed by original names, and
\* display_to_original gives each original name the first display name seen that
\* differs from it.
C25_LookupTablesFirstWriteWins ==
    (pc = "aggregated" /\ ~stats.v.empty) =>
        /\ {"name_to_email", "display_to_original"} \subseteq DOMAIN stats.v.v
        /\ \A i \in 1..Len(stats.v.v.name_to_email) :
              \E j \in 1..Len(parsed_messages.v) :
                  parsed_messages.v[j].original_name = stats.v.v.name_to_email[i].key
        /\ \A j \in 1..Len(parsed_messages.v) :
              LET original == parsed_messages.v[j].original_name
                  first == FirstDivergent(parsed_messages.v, original)
              IN  first # 0 =>
                      \E i \in 1..Len(stats.v.v.display_to_original) :
                          /\ stats.v.v.display_to_original[i].key = original
                          /\ stats.v.v.display_to_original[i].value =
                                 parsed_messages.v[first].name

----------------------------------------------------------------------------
(* A sub-block of a message that raises (SpecNormalize)                    *)

\* the reactions block of the message raises: one reactor_emails is not a list
ReactionsRaise(message) ==
    \E i \in 1..Len(message.reactions) : message.reactions[i].k # "list"

\* the message as parse_chat_message returns it when the reactions block gave
\* nothing: quote, body, attachments
WithoutReactions(message, table, now) ==
    NormalizedMessage(MapName(message.creator.name, table),
                      ParseTimestamp(message.created_date, now).timestamp,
                      QuoteMarkdown(message, table)
                          \o DisplayText(message, table)
                          \o AttachmentMarkdown(message),
                      message.creator.name)

\* C24: a message with creator.name and a readable or missing date whose
\* reactions block raises is still among the normalized messages, and its text is
\* the quote, the body and the attachments in this order, without any reaction.
C24_RaisingBlockAloneRemoved ==
    parsed_messages.done =>
        \A i \in 1..Len(data) :
            (/\ data[i].creator.has
             /\ data[i].creator.name.k # "absent"
             /\ data[i].created_date.k # "num"
             /\ ReactionsRaise(data[i]))
            => \E j \in 1..Len(parsed_messages.v) : \E now \in Clock :
                   parsed_messages.v[j] = WithoutReactions(data[i], name_mappings, now)

\* "> **Bob said:**\n> Alice said\n\nhi Alice\n\n> (paperclip) **Attachment:** `alice.txt`"
quote_body_attachment ==
    <<">", " ", "*", "*">> \o k_bob
        \o <<" ", "s", "a", "i", "d", ":", "*", "*", "\n", ">", " ">>
        \o txt_alice_said \o <<"\n", "\n">>
        \o txt_hi_alice
        \o attachment_head \o txt_alice_file \o <<backtick>>

\* the message with the malformed reaction was normalized without mappings
C24_MalformedReactionNormalized ==
    /\ parsed_messages.done
    /\ data = <<msg_bad_reaction>>
    /\ name_mappings = <<>>
    /\ Len(parsed_messages.v) = 1
    /\ parsed_messages.v[1].full_text = quote_body_attachment

----------------------------------------------------------------------------
(* The sender names of an anonymized document in the transcript (SpecMain) *)

\* the creator names stored in the messages of a document that the normalizer
\* keeps, in document order
RECURSIVE StoredSenders(_)
StoredSenders(document) ==
    IF document = <<>> THEN <<>>
    ELSE IF Head(document).creator.has /\ Head(document).creator.name.k # "absent"
              /\ Head(document).created_date.k # "num"
         THEN <<Head(document).creator.name>> \o StoredSenders(Tail(document))
         ELSE StoredSenders(Tail(document))

\* C26: when apply_anonymization has rewritten the document with the mapping
\* table and the transcript was made from it with the same table, every sender
\* of the transcript is the creator name stored in the anonymized document.
C26_SenderNotMappedAgain ==
    (/\ pc = "displayed"
     /\ name_mappings # <<>>
     /\ "anonymization" \notin reported)
    => /\ Len(parsed_messages.v) = Len(StoredSenders(display_data.v))
       /\ \A j \in 1..Len(parsed_messages.v) :
             parsed_messages.v[j].name = StoredSenders(display_data.v)[j]

----------------------------------------------------------------------------
(* The extracted sender names in the anonymized document (SpecMain)        *)

\* C27: when the document was anonymized, every message whose creator name the
\* extractor returned (the stored name, stripped) and the mapping table maps has
\* the replacement of that name as creator name in the anonymized document.
C27_ExtractedSendersReplaced ==
    (/\ pc = "anonymized"
     /\ name_mappings # <<>>
     /\ "anonymization" \notin reported)
    => \A i \in 1..Len(data) :
          (/\ data[i].creator.has
           /\ data[i].creator.name.k = "str"
           /\ Strip(data[i].creator.name.v) \in extract_entities_from_messages(data).names
           /\ HasKey(name_mappings, Strip(data[i].creator.name.v)))
          => display_data.v[i].creator.name =
                 Str(Lookup(name_mappings, Strip(data[i].creator.name.v)))

----------------------------------------------------------------------------
(* The table made of the session's mapping list (SpecSession)              *)

\* C28: whatever the buttons did to the session list, the table made of it has
\* no entry with an empty or whitespace-only original or replacement, and every
\* original and replacement in it is trimmed.
C28_TableTrimmedAndNonEmpty ==
    pc = "session" =>
        \A i \in 1..Len(name_mappings) :
            /\ Strip(name_mappings[i].original) # <<>>
            /\ Strip(name_mappings[i].replacement) # <<>>
            /\ name_mappings[i].original = Strip(name_mappings[i].original)
            /\ name_mappings[i].replacement = Strip(name_mappings[i].replacement)

\* the quick form added Alice with a blank replacement and Bob with " Bo": the
\* table has Bob alone, trimmed
C28_BlankDroppedSpacedTrimmed ==
    /\ pc = "session"
    /\ custom_mappings = <<Entry(k_alice, <<" ">>), Entry(k_bob, r_bo_spaced)>>
    /\ name_mappings = <<Entry(k_bob, r_bo)>>

----------------------------------------------------------------------------
(* The span of days of the statistics (SpecNormalize)                      *)

\* C29: in the statistics of a non-empty normalized list, total_days is at
\* least the number of dates that are keys of daily_counts.
C29_SpanCoversHistogram ==
    (pc = "aggregated" /\ ~stats.v.empty)
    => stats.v.v.date_range.total_days >= Len(stats.v.v.daily_counts)

----------------------------------------------------------------------------
(* The pages of the transcript (SpecPages)                                 *)

\* C30: the pages 1..total_pages, total_pages being (n - 1) \div p + 1 for n
\* messages and the page size p, hold between 1 and p messages each and give the
\* sorted list when put one behind the other; the page shown is one of them.
C30_PagesPartitionSortedList ==
    (pc = "displayed" /\ parsed_messages.v # <<>>) =>
        \A sorted_messages \in {SortedByTimestamp(parsed_messages.v)} :
            LET total_pages == (Len(sorted_messages) - 1) \div messages_per_page + 1
                pages == [k \in 1..total_pages |->
                             PageMessagesOf(sorted_messages, k, messages_per_page)]
            IN  /\ \A k \in 1..total_pages :
                      Len(pages[k]) >= 1 /\ Len(pages[k]) <= messages_per_page
                /\ Concat(pages) = sorted_messages
                /\ page \in 1..total_pages
                /\ page_messages.v = pages[page]

\* 21 messages at 10 per page: the third page shows the last message alone
C30_LastPageOfThree ==
    /\ pc = "displayed"
    /\ Len(parsed_messages.v) = 21
    /\ messages_per_page = 10
    /\ page = 3
    /\ Len(page_messages.v) = 1
    /\ page_messages.v[1].timestamp = DateTime(2024, 1, 3, 0, 0, 1)

====
